---- MODULE Spec2Model ----
(***************************************************************************)
(* RSP Harmonization Engine: the terminology-harmonization and             *)
(* gap-detection core (src/src/comparison).                                *)
(*                                                                         *)
(* Python values are modelled as follows.                                  *)
(*   str            a TLA+ string; lower(), upper(), slicing and           *)
(*                  startswith are computed character by character         *)
(*   None           the value PyNone where a string is expected, NoneRecord *)
(*                  where an object is, NullList where a list is           *)
(*   dict (record)  a TLA+ record whose DOMAIN is the set of keys present; *)
(*                  d.get(k, default) is Get(d, k, default)                *)
(*   dict (ordered) a sequence of <<key, value>> pairs with distinct keys, *)
(*                  in insertion order                                     *)
(*   list           a sequence                                             *)
(*   set            a TLA+ set; the order in which Python iterates it is   *)
(*                  fixed for the process by the variable hashOrder        *)
(***************************************************************************)
EXTENDS Naturals, Sequences, FiniteSets, TLC

VARIABLES
    extractions,  \* the caller's mapping {lab_id: ExtractionRecord}
    hashOrder,    \* iteration order of a set of str in this process
    mapper,       \* the TerminologyMapper instance (term_map)
    analyzer,     \* the GapAnalyzer instance (gaps)
    builder,      \* the MatrixBuilder instance (the term_map of its mapper)
    history,      \* the values analyze_all has returned so far
    ret,          \* the last call: operation, arguments, returned value
    raised,       \* TRUE once a call has ended in a raised error
    tables,       \* the module-level tables LEVEL_MAPPINGS, KNOWN_GAPS, UNIFIED_LEVEL_DESCRIPTIONS
    runs          \* analysis runs that execute side by side, each with its own instances

vars == <<extractions, hashOrder, mapper, analyzer, builder, history, ret, raised,
          tables, runs>>

----------------------------------------------------------------------------
(* Bounds of the model *)

MaxLabs == 2
MaxThresholds == 4
MaxEntries == 2
MaxCalls == 2

----------------------------------------------------------------------------
(* Python values *)

PyNone == "<None>"
NoneRecord == [py_none |-> TRUE]
NullList == <<NoneRecord>>
EmptyDict == <<>>

Get(d, k, default) == IF k \in DOMAIN d THEN d[k] ELSE default

Range(s) == {s[i] : i \in 1..Len(s)}

Min(a, b) == IF a < b THEN a ELSE b

(* ordered dict *)
DictKeys(d) == [i \in 1..Len(d) |-> d[i][1]]
DictHas(d, k) == \E i \in 1..Len(d) : d[i][1] = k
DictGet(d, k, default) ==
    IF DictHas(d, k) THEN d[CHOOSE i \in 1..Len(d) : d[i][1] = k][2] ELSE default
DictSet(d, k, v) ==
    IF DictHas(d, k)
    THEN [i \in 1..Len(d) |-> IF d[i][1] = k THEN <<k, v>> ELSE d[i]]
    ELSE Append(d, <<k, v>>)

(* del d[k] *)
DictDel(d, k) == SelectSeq(d, LAMBDA p : p[1] # k)

(* str *)
UpperAlphabet == "ABCDEFGHIJKLMNOPQRSTUVWXYZ"
LowerAlphabet == "abcdefghijklmnopqrstuvwxyz"
Digits == "123456789"

CharAt(s, i) == SubSeq(s, i, i)

CharLower ==
    [c \in {CharAt(UpperAlphabet, i) : i \in 1..Len(UpperAlphabet)} |->
        CharAt(LowerAlphabet, CHOOSE i \in 1..Len(UpperAlphabet) : CharAt(UpperAlphabet, i) = c)]
CharUpper ==
    [c \in {CharAt(LowerAlphabet, i) : i \in 1..Len(LowerAlphabet)} |->
        CharAt(UpperAlphabet, CHOOSE i \in 1..Len(LowerAlphabet) : CharAt(LowerAlphabet, i) = c)]

LowerChar(c) == IF c \in DOMAIN CharLower THEN CharLower[c] ELSE c
UpperChar(c) == IF c \in DOMAIN CharUpper THEN CharUpper[c] ELSE c

RECURSIVE Lower(_)
Lower(s) == IF s = "" THEN "" ELSE LowerChar(CharAt(s, 1)) \o Lower(SubSeq(s, 2, Len(s)))

RECURSIVE Upper(_)
Upper(s) == IF s = "" THEN "" ELSE UpperChar(CharAt(s, 1)) \o Upper(SubSeq(s, 2, Len(s)))

StartsWith(s, prefix) == Len(s) >= Len(prefix) /\ SubSeq(s, 1, Len(prefix)) = prefix

Slice3(s) == SubSeq(s, 1, Min(3, Len(s)))

IntToStr(i) == CharAt(Digits, i)

----------------------------------------------------------------------------
(* terminology_mapper.py *)

UnifiedLevel == <<"MINIMAL", "EMERGING", "SIGNIFICANT", "SEVERE", "CRITICAL">>

UnifiedLevelValue(u) == CHOOSE i \in 1..Len(UnifiedLevel) : UnifiedLevel[i] = u

LevelMapping(lab, name, id, unified, confidence, notes) ==
    [lab |-> lab, lab_level_name |-> name, lab_level_id |-> id,
     unified_level |-> unified, confidence |-> confidence, notes |-> notes]

LEVEL_MAPPINGS == <<
    <<"anthropic", <<
        LevelMapping("anthropic", "ASL-1", "asl_1", "MINIMAL", "exact",
                     "No meaningful catastrophic risk"),
        LevelMapping("anthropic", "ASL-2", "asl_2", "EMERGING", "exact",
                     "Current systems, early signs of capabilities"),
        LevelMapping("anthropic", "ASL-3", "asl_3", "SIGNIFICANT", "exact",
                     "Substantial increase in catastrophic misuse risk"),
        LevelMapping("anthropic", "ASL-4", "asl_4", "SEVERE", "exact",
                     "Could accelerate state-level threats") >> >>,
    <<"openai", <<
        LevelMapping("openai", "Low", "low", "MINIMAL", "approximate",
                     "Minimal risk, similar to widely available tools"),
        LevelMapping("openai", "Medium", "medium", "EMERGING", "approximate",
                     "Modest uplift, doesn't fundamentally change threat landscape"),
        LevelMapping("openai", "High", "high", "SIGNIFICANT", "exact",
                     "Significantly increases risk in tracked categories"),
        LevelMapping("openai", "Critical", "critical", "CRITICAL", "exact",
                     "Could contribute to existential-level risks") >> >>,
    <<"deepmind", <<
        LevelMapping("deepmind", "Below CCL", "below_ccl", "EMERGING", "approximate",
                     "Below Critical Capability Levels"),
        LevelMapping("deepmind", "Approaching CCL", "approaching_ccl", "EMERGING", "approximate",
                     "Early warning, 50% of CCL thresholds"),
        LevelMapping("deepmind", "CCL-1", "ccl_1", "SIGNIFICANT", "exact",
                     "First Critical Capability Level"),
        LevelMapping("deepmind", "CCL-2", "ccl_2", "SEVERE", "exact",
                     "Second Critical Capability Level, severe risks") >> >>,
    <<"meta", <<
        LevelMapping("meta", "Tier 1 - Low Risk", "tier_1", "MINIMAL", "approximate",
                     "Minimal incremental risk"),
        LevelMapping("meta", "Tier 2 - Moderate Risk", "tier_2", "EMERGING", "approximate",
                     "Meaningful but manageable risk uplift"),
        LevelMapping("meta", "Tier 3 - High Risk", "tier_3", "SIGNIFICANT", "exact",
                     "Significant dangerous capabilities"),
        LevelMapping("meta", "Tier 4 - Critical Risk", "tier_4", "CRITICAL", "exact",
                     "Catastrophic or existential-level risks") >> >>
>>


UNIFIED_LEVEL_DESCRIPTIONS == [u \in Range(UnifiedLevel) |->
    CASE u = "MINIMAL" -> "Systems posing no meaningful incremental risk beyond widely available tools"
      [] u = "EMERGING" -> "Early signs of dangerous capabilities, but no significant uplift beyond existing resources"
      [] u = "SIGNIFICANT" -> "Substantially increases risk of catastrophic misuse, requires robust mitigations"
      [] u = "SEVERE" -> "High-risk capabilities requiring maximum safeguards and potential deployment restrictions"
      [] u = "CRITICAL" -> "Capabilities that could contribute to existential risks, may require development pause"]

(* the outcome of a call: a returned value, or a raised error *)
Return(v) == [raised |-> FALSE, value |-> v]
Raise == [raised |-> TRUE]

(* the caller passed no mapping at all (extractions=None) *)
NoExtractions == << <<PyNone, EmptyDict>> >>

(* `extractions or {}` *)
OrEmpty(e) == IF e = NoExtractions THEN <<>> ELSE e

(* TerminologyMap.get_lab_level: the first mapping of lab at unified_level, or None *)
get_lab_level_Last(mappings, lab, unified_level) ==
    LET ms == DictGet(mappings, lab, <<>>)
        hits == {i \in 1..Len(ms) : ms[i].unified_level = unified_level}
    IN IF hits = {} THEN NoneRecord
       ELSE ms[CHOOSE i \in hits : \A j \in hits : i >= j]

get_lab_level(mappings, lab, unified_level) ==
    LET ms == DictGet(mappings, lab, <<>>)
        hits == {i \in 1..Len(ms) : ms[i].unified_level = unified_level}
    IN IF hits = {} THEN NoneRecord
       ELSE ms[CHOOSE i \in hits : \A j \in hits : i <= j]

InferUnifiedLevel_OffByOne(i, n) ==
    IF i = 0 THEN "MINIMAL"
    ELSE IF i = n - 1 THEN (IF n > 4 THEN "CRITICAL" ELSE "SEVERE")
    ELSE IF i = 1 THEN "EMERGING"
    ELSE "SIGNIFICANT"

InferUnifiedLevel_LastFirst(i, n) ==
    IF i = n - 1 THEN (IF n >= 4 THEN "CRITICAL" ELSE "SEVERE")
    ELSE IF i = 0 THEN "MINIMAL"
    ELSE IF i = 1 THEN "EMERGING"
    ELSE "SIGNIFICANT"

InferUnifiedLevel_MiddleSwapped(i, n) ==
    IF i = 0 THEN "MINIMAL"
    ELSE IF i = n - 1 THEN (IF n >= 4 THEN "CRITICAL" ELSE "SEVERE")
    ELSE IF i = 1 THEN "SIGNIFICANT"
    ELSE "EMERGING"

(* the if/elif chain of _infer_mappings, i the 0-based index, n = len(thresholds) *)
InferUnifiedLevel(i, n) ==
    IF i = 0 THEN "MINIMAL"
    ELSE IF i = n - 1 THEN (IF n >= 4 THEN "CRITICAL" ELSE "SEVERE")
    ELSE IF i = 1 THEN "EMERGING"
    ELSE "SIGNIFICANT"

(* enumerate(None) raises TypeError *)
InferMappingsRaises(extraction) ==
    Get(extraction, "capability_thresholds", <<>>) = NullList

InferMappings(lab, extraction) ==
    LET thresholds == Get(extraction, "capability_thresholds", <<>>)
    IN [k \in 1..Len(thresholds) |->
          LevelMapping(lab,
                       Get(thresholds[k], "level_name", "Level " \o IntToStr(k)),
                       Get(thresholds[k], "level_id", "level_" \o IntToStr(k)),
                       InferUnifiedLevel(k - 1, Len(thresholds)),
                       "uncertain",
                       "Inferred from position in framework")]

RECURSIVE EnhanceFrom_CaseSensitive(_, _, _)
EnhanceFrom_CaseSensitive(mappings, exts, i) ==
    IF i > Len(exts) THEN Return(mappings)
    ELSE LET lab == exts[i][1]
             extraction == exts[i][2]
             lab_lower == Lower(lab)
         IN IF DictHas(mappings, lab) THEN EnhanceFrom_CaseSensitive(mappings, exts, i + 1)
            ELSE IF InferMappingsRaises(extraction) THEN Raise
            ELSE EnhanceFrom_CaseSensitive(
                     DictSet(mappings, lab_lower, InferMappings(lab, extraction)), exts, i + 1)

(* the second loop of _build_terminology_map, from the i-th item of self.extractions on *)
RECURSIVE EnhanceFrom(_, _, _)
EnhanceFrom(mappings, exts, i) ==
    IF i > Len(exts) THEN Return(mappings)
    ELSE LET lab == exts[i][1]
             extraction == exts[i][2]
             lab_lower == Lower(lab)
         IN IF DictHas(mappings, lab_lower) THEN EnhanceFrom(mappings, exts, i + 1)
            ELSE IF InferMappingsRaises(extraction) THEN Raise
            ELSE EnhanceFrom(DictSet(mappings, lab_lower, InferMappings(lab, extraction)),
                             exts, i + 1)

BuildTerminologyMap(exts) == EnhanceFrom(LEVEL_MAPPINGS, exts, 1)

(* mapping.lab_level_name.lower() == level_name.lower() *)
NameMatches_CaseSensitive(lab_level_name, level_name) == lab_level_name = level_name

NameMatches(lab_level_name, level_name) == Lower(lab_level_name) = Lower(level_name)

(* the loop of get_unified_level over ms from index i on; None.lower() raises *)
RECURSIVE ScanLevel(_, _, _)
ScanLevel(ms, level_name, i) ==
    IF i > Len(ms) THEN Return(PyNone)
    ELSE IF ms[i].lab_level_name = PyNone THEN Raise
    ELSE IF NameMatches(ms[i].lab_level_name, level_name) THEN Return(ms[i].unified_level)
    ELSE ScanLevel(ms, level_name, i + 1)

GetUnifiedLevel(mappings, lab, level_name) ==
    ScanLevel(DictGet(mappings, Lower(lab), <<>>), level_name, 1)

(* other_lab.lower() != lab.lower() *)
IsOtherLab_CaseSensitive(other_lab, lab) == other_lab # lab

IsOtherLab(other_lab, lab) == Lower(other_lab) # Lower(lab)

(* the inner loop of get_equivalents: the mapping the loop stops at, or none *)
FirstMappingAt_NoBreak(ms, unified) ==
    LET hits == {i \in 1..Len(ms) : ms[i].unified_level = unified}
    IN IF hits = {} THEN NoneRecord
       ELSE ms[CHOOSE i \in hits : \A j \in hits : i >= j]

FirstMappingAt(ms, unified) ==
    LET hits == {i \in 1..Len(ms) : ms[i].unified_level = unified}
    IN IF hits = {} THEN NoneRecord
       ELSE ms[CHOOSE i \in hits : \A j \in hits : i <= j]

(* the loop of get_equivalents over the items of term_map.mappings from index i on *)
RECURSIVE EquivalentsFrom(_, _, _, _, _)
EquivalentsFrom(equivalents, mappings, lab, unified, i) ==
    IF i > Len(mappings) THEN equivalents
    ELSE LET other_lab == mappings[i][1]
             hit == FirstMappingAt(mappings[i][2], unified)
         IN IF IsOtherLab(other_lab, lab) /\ hit # NoneRecord
            THEN EquivalentsFrom(DictSet(equivalents, other_lab, hit.lab_level_name),
                                 mappings, lab, unified, i + 1)
            ELSE EquivalentsFrom(equivalents, mappings, lab, unified, i + 1)

GetEquivalents(mappings, lab, level_name) ==
    LET unified == GetUnifiedLevel(mappings, lab, level_name)
    IN IF unified.raised THEN Raise
       ELSE IF unified.value = PyNone THEN Return(<<>>)
       ELSE Return(EquivalentsFrom(<<>>, mappings, lab, unified.value, 1))

----------------------------------------------------------------------------
(* gap_analyzer.py *)

GapType == {"threshold", "coverage", "definition", "terminology"}

GapSeverity == <<"high", "medium", "low">>

GapExample(lab, quote, interpretation) ==
    [lab |-> lab, quote |-> quote, interpretation |-> interpretation]

Gap(gap_id, type, severity, title, description, affected_labs, domain, examples, recommendation) ==
    [gap_id |-> gap_id, type |-> type, severity |-> severity, title |-> title,
     description |-> description, affected_labs |-> affected_labs, domain |-> domain,
     examples |-> examples, recommendation |-> recommendation]

KNOWN_GAPS == <<
    Gap("THR-AUT-001", "threshold", "high",
        "Autonomy Threshold Misalignment",
        "Labs define 'dangerous autonomy' differently. Anthropic focuses on self-replication and resource acquisition, while OpenAI emphasizes general autonomous task completion, and DeepMind tracks ML R&D automation specifically.",
        <<"anthropic", "openai", "deepmind", "meta">>,
        "autonomy",
        <<GapExample("anthropic", "Cannot meaningfully self-replicate or acquire resources", "Focuses on self-preservation behaviors"),
             GapExample("openai", "Significant autonomous task completion", "Broader definition of autonomy"),
             GapExample("deepmind", "Can substantially accelerate AI development", "Specific to AI R&D autonomy")>>,
        "Define standardized autonomy metrics: (1) Self-replication capability, (2) Resource acquisition, (3) Task completion without oversight, (4) AI R&D acceleration"),
    Gap("THR-RND-001", "threshold", "high",
        "AI R&D Acceleration Threshold Divergence",
        "Different labs have vastly different thresholds for when AI-assisted R&D becomes concerning. Some treat any meaningful acceleration as high-risk, others focus only on autonomous research.",
        <<"anthropic", "deepmind">>,
        "ai_rd",
        <<GapExample("anthropic", "Can meaningfully accelerate AI development (ASL-3)", "Broad acceleration concern"),
             GapExample("deepmind", "Can substantially accelerate AI development (CCL-1)", "Similar but different threshold terminology")>>,
        "Establish quantitative metrics for AI R&D acceleration (e.g., X% reduction in development time, capability to discover novel architectures)"),
    Gap("THR-CBR-001", "threshold", "high",
        "CBRN Uplift Definition Inconsistency",
        "'Meaningful uplift' for CBRN capabilities is defined differently. Some labs compare to 'web search baseline', others to 'non-expert baseline', with unclear equivalence.",
        <<"anthropic", "openai", "deepmind", "meta">>,
        "cbrn",
        <<GapExample("anthropic", "No meaningful uplift beyond web search", "Web search as baseline"),
             GapExample("openai", "Modest uplift, comparable to skilled search", "Skilled search as baseline"),
             GapExample("deepmind", "Significantly increases ability of non-experts to cause harm", "Non-expert baseline")>>,
        "Define standardized CBRN uplift metrics with specific baseline comparisons and quantitative uplift thresholds"),
    Gap("TERM-001", "terminology", "high",
        "Risk Level Naming Inconsistency",
        "Labs use completely different naming conventions for risk levels, making cross-framework comparison difficult for regulators and researchers.",
        <<"anthropic", "openai", "deepmind", "meta">>,
        PyNone,
        <<GapExample("anthropic", "ASL-1 through ASL-4", "AI Safety Levels"),
             GapExample("openai", "Low, Medium, High, Critical", "Risk-based naming"),
             GapExample("deepmind", "Below CCL, CCL-1, CCL-2", "Critical Capability Levels"),
             GapExample("meta", "Tier 1 through Tier 4", "Tiered system")>>,
        "Adopt a unified 5-tier framework: Minimal, Emerging, Significant, Severe, Critical"),
    Gap("COV-PER-001", "coverage", "medium",
        "Persuasion/Manipulation Coverage Gap",
        "Not all frameworks explicitly address AI persuasion and manipulation capabilities with the same rigor as other domains.",
        <<"anthropic", "meta">>,
        "persuasion",
        <<GapExample("anthropic", "Partial coverage of persuasion", "Not as detailed as CBRN/cyber"),
             GapExample("openai", "Sophisticated persuasion campaigns (High level)", "Explicit coverage")>>,
        "All frameworks should include explicit persuasion thresholds with metrics for influence operations"),
    Gap("COV-DEC-001", "coverage", "medium",
        "Deception/Scheming Coverage Variance",
        "Only some frameworks explicitly address AI deception and scheming behaviors as a distinct risk category.",
        <<"anthropic", "openai", "meta">>,
        "deception",
        <<GapExample("deepmind", "Evidence of goal-directed deceptive behavior (CCL-1)", "Explicit scheming threshold"),
             GapExample("anthropic", "No explicit deception category", "Covered implicitly under autonomy")>>,
        "Add explicit deception/scheming thresholds to all frameworks"),
    Gap("DEF-SEC-001", "definition", "medium",
        "Security Level Definition Variance",
        "Security requirements at equivalent risk levels vary significantly. 'Enhanced security' means different things across frameworks.",
        <<"anthropic", "openai", "deepmind", "meta">>,
        PyNone,
        <<GapExample("anthropic", "Hardened infrastructure (ASL-3)", "Focus on infrastructure"),
             GapExample("deepmind", "Security Level Alpha to Omega", "Explicit tiered security system"),
             GapExample("meta", "Weight security (Tier 3+)", "Focus on model weights")>>,
        "Define standardized security levels with specific technical requirements"),
    Gap("THR-CYB-001", "threshold", "medium",
        "Cyber Capability Threshold Ambiguity",
        "Thresholds for dangerous cyber capabilities vary in specificity and measurability.",
        <<"anthropic", "openai", "deepmind", "meta">>,
        "cyber",
        <<GapExample("anthropic", "Can discover and exploit novel vulnerabilities (ASL-3)", "Novel vulnerability focus"),
             GapExample("openai", "Can discover or exploit significant vulnerabilities (High)", "Significant vs novel"),
             GapExample("deepmind", "Can automate significant parts of sophisticated attacks (CCL-1)", "Automation focus")>>,
        "Define specific cyber capability benchmarks with measurable criteria"),
    Gap("DEF-PAU-001", "definition", "high",
        "Pause Commitment Ambiguity",
        "While all labs commit to pausing under extreme circumstances, the specific conditions and duration are often vague.",
        <<"anthropic", "openai", "deepmind", "meta">>,
        PyNone,
        <<GapExample("anthropic", "Will not train/deploy without safeguards in place", "Safeguard-gated"),
             GapExample("openai", "Will not deploy Critical models without approval", "Approval-gated"),
             GapExample("deepmind", "Will not deploy models exceeding CCL without mitigations", "Mitigation-gated")>>,
        "Define clear, verifiable pause conditions with specific capability thresholds and safeguard requirements"),
    Gap("TERM-002", "terminology", "low",
        "Safeguard vs Mitigation Terminology",
        "Labs use 'safeguards', 'mitigations', and 'controls' somewhat interchangeably.",
        <<"anthropic", "openai", "deepmind", "meta">>,
        PyNone,
        <<GapExample("anthropic", "Required safeguards", "Uses 'safeguards'"),
             GapExample("deepmind", "Deployment mitigations verified", "Uses 'mitigations'"),
             GapExample("openai", "Safety mitigations", "Uses 'mitigations'")>>,
        "Standardize terminology: 'Safeguards' for proactive measures, 'Mitigations' for risk reduction")
>>

(* str.title(): a letter that follows a letter is lower-cased, any other letter upper-cased *)
RECURSIVE TitleFrom(_, _)
TitleFrom(s, afterLetter) ==
    IF s = "" THEN ""
    ELSE LET c == CharAt(s, 1)
             isLetter == c \in DOMAIN CharLower \/ c \in DOMAIN CharUpper
         IN (IF afterLetter THEN LowerChar(c) ELSE UpperChar(c))
                \o TitleFrom(SubSeq(s, 2, Len(s)), isLetter)

Title(s) == TitleFrom(s, FALSE)

RiskDomains(extraction) == Get(extraction, "risk_domains", <<>>)

(* the iteration of a set of str: its elements in the order of this process *)
SetIterate(S, order) == SelectSeq(order, LAMBDA d : d \in S)

(* `if rd.get("domain")`: neither missing, None nor empty *)
Truthy(v) == v # PyNone /\ v # ""

(* _get_all_domains: iterating a risk_domains that is None raises TypeError *)
GetAllDomainsRaises(exts) ==
    \E p \in 1..Len(exts) : RiskDomains(exts[p][2]) = NullList

DomainsOf(extraction) ==
    LET rds == RiskDomains(extraction)
    IN {Lower(rds[j].domain) :
            j \in {j \in 1..Len(rds) : Truthy(Get(rds[j], "domain", PyNone))}}

GetAllDomains(exts) == UNION {DomainsOf(exts[p][2]) : p \in 1..Len(exts)}

(* find_threshold_gaps: compares nothing and returns no gap; it raises where
   _get_all_domains does, and on rd.get("domain", "").lower() for a None domain *)
FindThresholdGaps(exts, order) ==
    IF GetAllDomainsRaises(exts) THEN Raise
    ELSE IF /\ GetAllDomains(exts) # {}
            /\ \E p \in 1..Len(exts) : \E j \in 1..Len(RiskDomains(exts[p][2])) :
                  Get(RiskDomains(exts[p][2])[j], "domain", "") = PyNone
         THEN Raise
    ELSE Return(<<>>)

(* rd.get("coverage") in ["full", "partial"] *)
CoverageCounts_FullOnly(coverage) == coverage \in {"full"}

CoverageCounts(coverage) == coverage \in {"full", "partial"}

(* the inner loop of find_coverage_gaps over rds from index j on: has_domain *)
RECURSIVE HasDomain(_, _, _)
HasDomain(rds, domain, j) ==
    IF j > Len(rds) THEN Return(FALSE)
    ELSE LET d == Get(rds[j], "domain", "")
         IN IF d = PyNone THEN Raise
            ELSE IF Lower(d) = Lower(domain) /\ CoverageCounts(Get(rds[j], "coverage", PyNone))
                 THEN Return(TRUE)
            ELSE HasDomain(rds, domain, j + 1)

(* labs_covering (has = TRUE) and labs_missing (has = FALSE), in the order of the mapping *)
LabsWhere(exts, domain, has) ==
    LET keep(item) == HasDomain(RiskDomains(item[2]), domain, 1) = Return(has)
    IN DictKeys(SelectSeq(exts, keep))

KnownCoveragePrefix_Never(domain) == FALSE

KnownCoveragePrefix(domain) ==
    \E k \in 1..Len(KNOWN_GAPS) :
        StartsWith(KNOWN_GAPS[k].gap_id, "COV-" \o Upper(Slice3(domain)))

DomainEligible_Never(domain) == FALSE

(* `domain not in ["other"]` *)
DomainEligible(domain) == domain # "other"

(* the body of the loop of find_coverage_gaps for one domain: the gaps it appends *)
CoverageGapsOf(exts, domain) ==
    LET labs_covering == LabsWhere(exts, domain, TRUE)
        labs_missing == LabsWhere(exts, domain, FALSE)
    IN IF /\ labs_covering # <<>>
          /\ labs_missing # <<>>
          /\ DomainEligible(domain)
          /\ ~KnownCoveragePrefix(domain)
       THEN << Gap("COV-" \o Upper(Slice3(domain)) \o "-DYN",
                   "coverage", "medium",
                   Title(domain) \o " Coverage Gap",
                   "Not all frameworks address " \o domain \o " with equal rigor.",
                   labs_missing,
                   domain,
                   <<>>,
                   "Ensure all frameworks explicitly address " \o domain \o " risk domain") >>
       ELSE <<>>

RECURSIVE CoverageGapsFrom(_, _, _)
CoverageGapsFrom(exts, domains, k) ==
    IF k > Len(domains) THEN <<>>
    ELSE CoverageGapsOf(exts, domains[k]) \o CoverageGapsFrom(exts, domains, k + 1)

FindCoverageGaps(exts, order) ==
    IF GetAllDomainsRaises(exts) THEN Raise
    ELSE LET all_domains == SetIterate(GetAllDomains(exts), order)
         IN IF \E k \in 1..Len(all_domains) : \E p \in 1..Len(exts) :
                   HasDomain(RiskDomains(exts[p][2]), all_domains[k], 1) = Raise
            THEN Raise
            ELSE Return(CoverageGapsFrom(exts, all_domains, 1))

FindDefinitionGaps == <<>>

(* `seen_ids = set()` at the start of the deduplication *)
SeenIdsInit(self_gaps) == {}

(* `seen_ids.add(gap.gap_id)` *)
SeenAdd_Forgotten(seen_ids, gap_id) == seen_ids

SeenAdd(seen_ids, gap_id) == seen_ids \cup {gap_id}

(* the deduplication loop of analyze_all over gaps from index k on *)
RECURSIVE UniqueGaps(_, _, _)
UniqueGaps(gaps, seen_ids, k) ==
    IF k > Len(gaps) THEN <<>>
    ELSE IF gaps[k].gap_id \notin seen_ids
         THEN <<gaps[k]>> \o UniqueGaps(gaps, SeenAdd(seen_ids, gaps[k].gap_id), k + 1)
    ELSE UniqueGaps(gaps, seen_ids, k + 1)

(* the curated catalog after the synthesized gaps *)
SeededGaps_CatalogLast(synthesized) == synthesized \o KNOWN_GAPS

(* `self.gaps = []; self.gaps.extend(KNOWN_GAPS)` followed by the extend calls
   with the synthesized gaps *)
SeededGaps(synthesized) == KNOWN_GAPS \o synthesized

(* analyze_all on an analyzer whose gaps are self_gaps: whether it raised, the
   gaps it leaves stored, and (unless it raised) the list it returns, which is
   the stored list *)
AnalyzeAll(self_gaps, self_extractions, order) ==
    LET threshold_gaps == FindThresholdGaps(self_extractions, order)
        coverage_gaps == FindCoverageGaps(self_extractions, order)
    IN IF self_extractions # <<>> /\ (threshold_gaps.raised \/ coverage_gaps.raised)
       THEN [raised |-> TRUE, gaps |-> KNOWN_GAPS]
       ELSE LET all == IF self_extractions # <<>>
                       THEN SeededGaps(threshold_gaps.value \o coverage_gaps.value
                                           \o FindDefinitionGaps)
                       ELSE SeededGaps(<<>>)
                unique_gaps == UniqueGaps(all, SeenIdsInit(self_gaps), 1)
            IN [raised |-> FALSE, gaps |-> unique_gaps]

----------------------------------------------------------------------------
(* matrix_builder.py *)

(* the glyphs of the matrices, written by their code points *)
CheckMark == "U+2713"
FullCircle == "U+25CF"
HalfCircle == "U+25D0"
EmptyCircle == "U+25CB"

(* the characters of the strings at hand in the order of their code points *)
CodePointOrder == " -0123456789ABCDEFGHIJKLMNOPQRSTUVWXYZ_abcdefghijklmnopqrstuvwxyz"

Ord(c) == CHOOSE i \in 1..Len(CodePointOrder) : CharAt(CodePointOrder, i) = c

(* a < b for str *)
RECURSIVE StrLess(_, _)
StrLess(a, b) ==
    IF b = "" THEN FALSE
    ELSE IF a = "" THEN TRUE
    ELSE IF CharAt(a, 1) = CharAt(b, 1) THEN StrLess(SubSeq(a, 2, Len(a)), SubSeq(b, 2, Len(b)))
    ELSE Ord(CharAt(a, 1)) < Ord(CharAt(b, 1))

(* sorted(S) for a set of str *)
RECURSIVE Sorted(_)
Sorted(S) ==
    IF S = {} THEN <<>>
    ELSE LET x == CHOOSE y \in S : TRUE
             rest == Sorted(S \ {x})
             at == Cardinality({k \in 1..Len(rest) : StrLess(rest[k], x)})
         IN SubSeq(rest, 1, at) \o <<x>> \o SubSeq(rest, at + 1, Len(rest))

(* s.replace("_", " ") *)
RECURSIVE ReplaceUnderscore(_)
ReplaceUnderscore(s) ==
    IF s = "" THEN ""
    ELSE (IF CharAt(s, 1) = "_" THEN " " ELSE CharAt(s, 1))
             \o ReplaceUnderscore(SubSeq(s, 2, Len(s)))

(* f"{v}" *)
Format(v) == IF v = PyNone THEN "None" ELSE v

(* {"exact": " ✓", "approximate": " ~", "uncertain": " ?"}.get(confidence, "") *)
ConfidenceSymbol(confidence) ==
    CASE confidence = "exact" -> " " \o CheckMark
      [] confidence = "approximate" -> " ~"
      [] confidence = "uncertain" -> " ?"
      [] OTHER -> ""

ComparisonCell_TitledLookup(term_map, lab, unified_level) ==
    LET mapping == get_lab_level(term_map, Title(lab), unified_level)
    IN IF mapping # NoneRecord
       THEN Format(mapping.lab_level_name) \o ConfidenceSymbol(mapping.confidence)
       ELSE "-"

(* the cell of build_comparison_matrix for lab and unified_level *)
ComparisonCell(term_map, lab, unified_level) ==
    LET mapping == get_lab_level(term_map, lab, unified_level)
    IN IF mapping # NoneRecord
       THEN Format(mapping.lab_level_name) \o ConfidenceSymbol(mapping.confidence)
       ELSE "-"

(* the loop over labs that fills one row of build_comparison_matrix, from labs[k] on *)
RECURSIVE ComparisonRowFrom(_, _, _, _, _)
ComparisonRowFrom(row, term_map, labs, unified_level, k) ==
    IF k > Len(labs) THEN row
    ELSE ComparisonRowFrom(
             DictSet(row, Title(labs[k]), ComparisonCell(term_map, labs[k], unified_level)),
             term_map, labs, unified_level, k + 1)

(* build_comparison_matrix: the rows handed to the DataFrame, each a dict *)
BuildComparisonMatrix(term_map) ==
    LET labs == DictKeys(term_map)
        description(u) == LET d == UNIFIED_LEVEL_DESCRIPTIONS[u]
                          IN SubSeq(d, 1, Min(60, Len(d))) \o "..."
    IN [i \in 1..Len(UnifiedLevel) |->
           ComparisonRowFrom(<< <<"Unified Level", Title(UnifiedLevel[i])>>,
                                <<"Description", description(UnifiedLevel[i])>> >>,
                             term_map, labs, UnifiedLevel[i], 1)]

StandardDomains_NoDeception == <<"cbrn", "cyber", "autonomy", "persuasion", "ai_rd">>

StandardDomains == <<"cbrn", "cyber", "autonomy", "persuasion", "ai_rd", "deception">>

DefaultLabs == <<"anthropic", "openai", "deepmind", "meta">>

(* list(self.extractions.keys()) if self.extractions else the four default labs *)
LabsOrDefault(exts) == IF exts # <<>> THEN DictKeys(exts) ELSE DefaultLabs

RECURSIVE ScanCoverage_NoBreak(_, _, _)
ScanCoverage_NoBreak(rds, domain, j) ==
    IF j > Len(rds) THEN Return("?")
    ELSE LET d == Get(rds[j], "domain", "")
             rest == ScanCoverage_NoBreak(rds, domain, j + 1)
         IN IF d = PyNone THEN Raise
            ELSE IF Lower(d) = domain /\ rest = Return("?")
                 THEN Return(Get(rds[j], "coverage", "partial"))
            ELSE rest

(* the scan of build_domain_coverage_matrix over rds from index j on: the
   coverage it stops with *)
RECURSIVE ScanCoverage(_, _, _)
ScanCoverage(rds, domain, j) ==
    IF j > Len(rds) THEN Return("?")
    ELSE LET d == Get(rds[j], "domain", "")
         IN IF d = PyNone THEN Raise
            ELSE IF Lower(d) = domain THEN Return(Get(rds[j], "coverage", "partial"))
            ELSE ScanCoverage(rds, domain, j + 1)

(* {"full": "●", "partial": "◐", "none": "○", "?": "?"}.get(coverage, "?") *)
CoverageSymbol(coverage) ==
    CASE coverage = "full" -> FullCircle
      [] coverage = "partial" -> HalfCircle
      [] coverage = "none" -> EmptyCircle
      [] OTHER -> "?"

(* the loop over labs that fills one row of build_domain_coverage_matrix *)
RECURSIVE CoverageRowFrom(_, _, _, _, _)
CoverageRowFrom(row, exts, labs, domain, k) ==
    IF k > Len(labs) THEN Return(row)
    ELSE LET extraction == DictGet(exts, labs[k], EmptyDict)
             rds == RiskDomains(extraction)
             coverage == IF rds = NullList THEN Raise ELSE ScanCoverage(rds, domain, 1)
         IN IF coverage.raised THEN Raise
            ELSE CoverageRowFrom(DictSet(row, Title(labs[k]), CoverageSymbol(coverage.value)),
                                 exts, labs, domain, k + 1)

(* the loop of build_domain_coverage_matrix over the sorted domains from
   domains[i] on: data with the rows appended, or a raised error *)
RECURSIVE CoverageRowsFrom(_, _, _, _, _)
CoverageRowsFrom(data, exts, labs, domains, i) ==
    IF i > Len(domains) THEN Return(data)
    ELSE LET row == CoverageRowFrom(<< <<"Domain", ReplaceUnderscore(Upper(domains[i]))>> >>,
                                    exts, labs, domains[i], 1)
         IN IF row.raised THEN Raise
            ELSE CoverageRowsFrom(Append(data, row.value), exts, labs, domains, i + 1)

(* build_domain_coverage_matrix: the rows handed to the DataFrame, or a raised error *)
BuildDomainCoverageMatrix(exts) ==
    IF GetAllDomainsRaises(exts) THEN Raise
    ELSE LET all_domains == GetAllDomains(exts) \cup Range(StandardDomains)
             labs == LabsOrDefault(exts)
         IN CoverageRowsFrom(<<>>, exts, labs, Sorted(all_domains), 1)

(* `self.extractions = extractions or {}`: where the dict the builder keeps
   lives. A mapping that is not empty is kept itself, so the builder sees what
   the caller does to it afterwards; for None or an empty mapping the builder
   keeps a new empty dict of its own. *)
SelfExtractionsAt(exts) == IF OrEmpty(exts) = <<>> THEN "own" ELSE "caller"

(* sum(1 for rd in risk_domains if rd.get("coverage") == coverage) *)
CountCoverage(rds, coverage) ==
    Cardinality({j \in 1..Len(rds) : Get(rds[j], "coverage", PyNone) = coverage})

(* get_summary_stats; iterating or measuring a list field that is None raises *)
GetSummaryStats(exts) ==
    LET labs == LabsOrDefault(exts)
        extraction(lab) == DictGet(exts, lab, EmptyDict)
        counts(lab) == LET rds == RiskDomains(extraction(lab))
                           full_coverage == CountCoverage(rds, "full")
                           partial_coverage == CountCoverage(rds, "partial")
                       IN [full |-> full_coverage, partial |-> partial_coverage,
                           total |-> full_coverage + partial_coverage]
    IN IF \E k \in 1..Len(labs) :
              \/ RiskDomains(extraction(labs[k])) = NullList
              \/ Get(extraction(labs[k]), "capability_thresholds", <<>>) = NullList
       THEN Raise
       ELSE Return([labs_analyzed |-> Len(labs),
                    domain_coverage |-> [k \in 1..Len(labs) |-> <<labs[k], counts(labs[k])>>],
                    level_counts |-> [k \in 1..Len(labs) |->
                        <<labs[k], Len(Get(extraction(labs[k]), "capability_thresholds", <<>>))>>],
                    unified_levels |-> Len(UnifiedLevel)])

----------------------------------------------------------------------------
(* gap_analyzer.py: print_gap_report *)

(* (g.severity.value, g.gap_id) < (h.severity.value, h.gap_id) *)
SortKeyLess(g, h) ==
    \/ StrLess(g.severity, h.severity)
    \/ g.severity = h.severity /\ StrLess(g.gap_id, h.gap_id)

(* sorted(gaps, key=...): gaps[1..n] sorted, equal keys in their order in gaps *)
RECURSIVE SortedGaps(_, _)
SortedGaps(gaps, n) ==
    IF n = 0 THEN <<>>
    ELSE LET before == SortedGaps(gaps, n - 1)
             g == gaps[n]
             at == Cardinality({k \in 1..Len(before) : ~SortKeyLess(g, before[k])})
         IN SubSeq(before, 1, at) \o <<g>> \o SubSeq(before, at + 1, Len(before))

(* ", ".join(labs) *)
RECURSIVE JoinComma(_)
JoinComma(labs) ==
    IF labs = <<>> THEN ""
    ELSE IF Len(labs) = 1 THEN labs[1]
    ELSE labs[1] \o ", " \o JoinComma(Tail(labs))

(* the row table.add_row receives for gap *)
ReportRow(gap) ==
    [gap_id |-> gap.gap_id,
     type |-> Title(gap.type),
     severity |-> Upper(gap.severity),
     title |-> IF Len(gap.title) > 40 THEN SubSeq(gap.title, 1, 40) \o "..." ELSE gap.title,
     affected_labs |-> JoinComma(SubSeq(gap.affected_labs, 1, Min(3, Len(gap.affected_labs))))
                           \o (IF Len(gap.affected_labs) > 3 THEN "..." ELSE "")]

(* print_gap_report: the gaps it leaves in self.gaps and the rows of the table
   it prints, or a raised error of analyze_all *)
PrintGapReport(gaps, exts, order) ==
    LET analysed == IF gaps = <<>> THEN AnalyzeAll(gaps, exts, order)
                    ELSE [raised |-> FALSE, gaps |-> gaps]
    IN IF analysed.raised THEN [raised |-> TRUE, gaps |-> analysed.gaps, table |-> <<>>]
       ELSE LET sorted == SortedGaps(analysed.gaps, Len(analysed.gaps))
            IN [raised |-> FALSE, gaps |-> analysed.gaps,
                table |-> [k \in 1..Len(sorted) |-> ReportRow(sorted[k])]]

----------------------------------------------------------------------------
(* gap_analyzer.py: the filters and the exports *)

(* [g for g in self.gaps if g.severity == severity] *)
GetGapsBySeverity(gaps, severity) ==
    LET keep(g) == g.severity = severity
    IN SelectSeq(gaps, keep)

(* [g for g in self.gaps if g.type == gap_type] *)
GetGapsByType(gaps, gap_type) ==
    LET keep(g) == g.type = gap_type
    IN SelectSeq(gaps, keep)

GetGapsByDomain_CaseSensitive(gaps, domain) ==
    LET keep(g) == IF Truthy(g.domain) THEN g.domain = domain ELSE FALSE
    IN SelectSeq(gaps, keep)

(* [g for g in self.gaps if g.domain and g.domain.lower() == domain.lower()] *)
GetGapsByDomain(gaps, domain) ==
    LET keep(g) == IF Truthy(g.domain) THEN Lower(g.domain) = Lower(domain) ELSE FALSE
    IN SelectSeq(gaps, keep)

(* Gap.to_dict: the enum members give their values *)
GapToDict(gap) ==
    [gap_id |-> gap.gap_id, type |-> gap.type, severity |-> gap.severity,
     title |-> gap.title, description |-> gap.description,
     affected_labs |-> gap.affected_labs, domain |-> gap.domain,
     examples |-> [k \in 1..Len(gap.examples) |->
                      [lab |-> gap.examples[k].lab, quote |-> gap.examples[k].quote,
                       interpretation |-> gap.examples[k].interpretation]],
     recommendation |-> gap.recommendation]

(* [g.to_dict() for g in gaps] *)
DictsOf(gaps) == [k \in 1..Len(gaps) |-> GapToDict(gaps[k])]

EnsureAnalysed_Never(gaps, exts, order) == [raised |-> FALSE, gaps |-> gaps]

(* `if not self.gaps: self.analyze_all()`: whether it raised and the gaps stored after it *)
EnsureAnalysed(gaps, exts, order) ==
    IF gaps = <<>> THEN AnalyzeAll(gaps, exts, order)
    ELSE [raised |-> FALSE, gaps |-> gaps]

(* GapAnalyzer.to_dict: the gaps it leaves stored and the dict it returns *)
ToDict(gaps, exts, order) ==
    LET analysed == EnsureAnalysed(gaps, exts, order)
        self_gaps == analysed.gaps
    IN IF analysed.raised THEN [raised |-> TRUE, gaps |-> self_gaps]
       ELSE [raised |-> FALSE, gaps |-> self_gaps,
             value |->
               [total_gaps |-> Len(self_gaps),
                by_severity |->
                  [high |-> DictsOf(GetGapsBySeverity(self_gaps, "high")),
                   medium |-> DictsOf(GetGapsBySeverity(self_gaps, "medium")),
                   low |-> DictsOf(GetGapsBySeverity(self_gaps, "low"))],
                by_type |->
                  [threshold |-> DictsOf(GetGapsByType(self_gaps, "threshold")),
                   coverage |-> DictsOf(GetGapsByType(self_gaps, "coverage")),
                   definition |-> DictsOf(GetGapsByType(self_gaps, "definition")),
                   terminology |-> DictsOf(GetGapsByType(self_gaps, "terminology"))]]]

(* export_gaps: the gaps it leaves stored and the object it writes to the file *)
ExportGaps(gaps, exts, order) ==
    LET analysed == EnsureAnalysed(gaps, exts, order)
        self_gaps == analysed.gaps
    IN IF analysed.raised THEN [raised |-> TRUE, gaps |-> self_gaps]
       ELSE [raised |-> FALSE, gaps |-> self_gaps,
             value |->
               [analysis_metadata |->
                  [total_gaps |-> Len(self_gaps),
                   high_severity_count |-> Len(GetGapsBySeverity(self_gaps, "high")),
                   medium_severity_count |-> Len(GetGapsBySeverity(self_gaps, "medium")),
                   low_severity_count |-> Len(GetGapsBySeverity(self_gaps, "low")),
                   labs_analyzed |-> LabsOrDefault(exts)],
                gaps |-> DictsOf(self_gaps)]]

----------------------------------------------------------------------------
(* Analysis runs side by side: the statements of one run (a mapper, a query, an
   analyzer, analyze_all, to_dict, a matrix builder, its two matrices), with the
   objects the statements read and write told apart by where they live. A
   mappings dict lives in the TerminologyMap of the run's mapper ("mapper"), in
   that of the mapper of its builder ("builder"), or is the module-level
   LEVEL_MAPPINGS; a gap list lives in the run's analyzer ("gaps") or is the
   module-level KNOWN_GAPS. *)

RunIds == {1, 2}

(* `term_map = TerminologyMap()`: the mappings dict of a new TerminologyMap is
   a dict of its own (field(default_factory=dict)) *)
NewTerminologyMap_Shared(owner) == "LEVEL_MAPPINGS"

NewTerminologyMap(owner) == owner

(* `self.gaps = []`: a list of its own *)
NewGapList_Catalog == "KNOWN_GAPS"

NewGapList == "gaps"

(* the dict a reference names: at a new dict of its own, nothing yet *)
ReadMappings(t, run, at) ==
    CASE at = "LEVEL_MAPPINGS" -> t.LEVEL_MAPPINGS
      [] at = "mapper" -> run.mappings
      [] at = "builder" -> run.builder_mappings

WriteMappings(t, run, at, value) ==
    CASE at = "LEVEL_MAPPINGS" -> [tables |-> [t EXCEPT !.LEVEL_MAPPINGS = value], run |-> run]
      [] at = "mapper" -> [tables |-> t, run |-> [run EXCEPT !.mappings = value]]
      [] at = "builder" -> [tables |-> t, run |-> [run EXCEPT !.builder_mappings = value]]

ReadGaps(t, run, at) ==
    CASE at = "KNOWN_GAPS" -> t.KNOWN_GAPS
      [] at = "gaps" -> run.gaps
      [] OTHER -> <<>>

WriteGaps(t, run, at, value) ==
    CASE at = "KNOWN_GAPS" -> [tables |-> [t EXCEPT !.KNOWN_GAPS = value], run |-> run]
      [] at = "gaps" -> [tables |-> t, run |-> [run EXCEPT !.gaps = value]]

(* `for lab, mappings in LEVEL_MAPPINGS.items(): term_map.mappings[lab] = mappings.copy()` *)
RECURSIVE CopyCurated(_, _, _)
CopyCurated(mappings, level_mappings, i) ==
    IF i > Len(level_mappings) THEN mappings
    ELSE CopyCurated(DictSet(mappings, level_mappings[i][1], level_mappings[i][2]),
                     level_mappings, i + 1)

(* a run before its first statement *)
NewRun(config) ==
    [extractions |-> config.extractions, order |-> config.order, pc |-> "start",
     term_map_at |-> "none", mappings |-> <<>>,
     gaps_at |-> "none", gaps |-> <<>>,
     builder_at |-> "none", builder_mappings |-> <<>>,
     out |-> <<>>]

(* the statements of a run in the order it executes them, named by the position
   reached after each *)
RunPositions == <<"start", "copied", "mapped", "queried", "seeded", "synthesized",
                  "analysed", "summarised", "built", "compared", "done">>

PcRank(pc) == CHOOSE i \in 1..Len(RunPositions) : RunPositions[i] = pc

(* TerminologyMapper.__init__, first loop of _build_terminology_map *)
MapCopyEffect(t, run) ==
    LET at == NewTerminologyMap("mapper")
        fresh == IF at = "mapper" THEN [run EXCEPT !.term_map_at = at, !.mappings = <<>>]
                 ELSE [run EXCEPT !.term_map_at = at]
    IN WriteMappings(t, fresh, at,
                     CopyCurated(ReadMappings(t, fresh, at), t.LEVEL_MAPPINGS, 1))

(* second loop of _build_terminology_map *)
MapEnhanceEffect(t, run) ==
    LET at == run.term_map_at
    IN WriteMappings(t, run, at,
                     EnhanceFrom(ReadMappings(t, run, at), OrEmpty(run.extractions), 1).value)

(* mapper.get_equivalents(lab, level_name) *)
QueryEffect(t, run, lab, level_name) ==
    [tables |-> t,
     run |-> [run EXCEPT !.out = DictSet(@, "equivalents",
                 [lab |-> lab, level_name |-> level_name,
                  result |-> GetEquivalents(ReadMappings(t, run, run.term_map_at),
                                            lab, level_name)])]]

(* GapAnalyzer.__init__ and `self.gaps = []; self.gaps.extend(KNOWN_GAPS)` *)
SeedEffect(t, run) ==
    LET at == NewGapList
        fresh == IF at = "gaps" THEN [run EXCEPT !.gaps_at = at, !.gaps = <<>>]
                 ELSE [run EXCEPT !.gaps_at = at]
    IN WriteGaps(t, fresh, at, ReadGaps(t, fresh, at) \o t.KNOWN_GAPS)

(* `if self.extractions:` and the three extend calls *)
SynthesizeEffect(t, run) ==
    LET exts == OrEmpty(run.extractions)
        at == run.gaps_at
    IN IF exts = <<>> THEN [tables |-> t, run |-> run]
       ELSE WriteGaps(t, run, at,
                      ReadGaps(t, run, at) \o FindThresholdGaps(exts, run.order).value
                          \o FindCoverageGaps(exts, run.order).value
                          \o FindDefinitionGaps)

(* the deduplication and `self.gaps = unique_gaps` *)
DedupEffect(t, run) ==
    LET self_gaps == ReadGaps(t, run, run.gaps_at)
        unique_gaps == UniqueGaps(self_gaps, SeenIdsInit(self_gaps), 1)
    IN [tables |-> t, run |-> [run EXCEPT !.gaps_at = "gaps", !.gaps = unique_gaps]]

(* analyzer.to_dict() *)
SummariseEffect(t, run) ==
    LET r == ToDict(ReadGaps(t, run, run.gaps_at), OrEmpty(run.extractions), run.order)
    IN [tables |-> t, run |-> [run EXCEPT !.out = DictSet(@, "to_dict", r.value)]]

(* MatrixBuilder.__init__: a TerminologyMapper of its own, both loops *)
BuilderEffect(t, run) ==
    LET at == NewTerminologyMap("builder")
        fresh == IF at = "builder"
                 THEN [run EXCEPT !.builder_at = at, !.builder_mappings = <<>>]
                 ELSE [run EXCEPT !.builder_at = at]
        copied == CopyCurated(ReadMappings(t, fresh, at), t.LEVEL_MAPPINGS, 1)
    IN WriteMappings(t, fresh, at, EnhanceFrom(copied, OrEmpty(run.extractions), 1).value)

(* builder.build_comparison_matrix() *)
ComparisonEffect(t, run) ==
    [tables |-> t,
     run |-> [run EXCEPT !.out = DictSet(@, "comparison",
                 BuildComparisonMatrix(ReadMappings(t, run, run.builder_at)))]]

(* builder.build_domain_coverage_matrix() *)
CoverageEffect(t, run) ==
    [tables |-> t,
     run |-> [run EXCEPT !.out = DictSet(@, "coverage",
                 BuildDomainCoverageMatrix(OrEmpty(run.extractions)).value)]]

----------------------------------------------------------------------------
(* Inputs: the extraction mappings a caller may pass *)

LabKeys == {"OpenAI", "Acme", "nova"}

(* level names of the thresholds a lab may declare, lowest risk first; "" for a
   threshold that carries no level_name *)
LevelNamePool == <<"Low", "High", "HIGH", "">>

PoolThreshold(k) ==
    IF k <= Len(LevelNamePool) /\ LevelNamePool[k] # ""
    THEN [level_name |-> LevelNamePool[k]]
    ELSE EmptyDict

ThresholdList(n) == [k \in 1..n |-> PoolThreshold(k)]

(* records that differ in capability_thresholds: no such key, or 0..MaxThresholds levels *)
MapperRecords ==
    {EmptyDict} \cup {[capability_thresholds |-> ThresholdList(n)] : n \in 0..MaxThresholds}

KeySeqs ==
    {ks \in UNION {[1..n -> LabKeys] : n \in 0..MaxLabs} :
        \A i, j \in 1..Len(ks) : i # j => ks[i] # ks[j]}

MappingsOver(records) ==
    UNION {{[i \in 1..Len(ks) |-> <<ks[i], f[i]>>] : f \in [1..Len(ks) -> records]} : ks \in KeySeqs}

(* risk_domains entries a lab may declare: the same domain in two letter cases
   and with each coverage, a second domain with the same first three letters, a
   domain of a curated coverage gap, the domain "other", an entry without
   coverage and one without domain *)
RiskEntryPool == {
    [domain |-> "cyber", coverage |-> "full"],
    [domain |-> "Cyber", coverage |-> "partial"],
    [domain |-> "cyber", coverage |-> "none"],
    [domain |-> "cybersec", coverage |-> "full"],
    [domain |-> "persuasion", coverage |-> "partial"],
    [domain |-> "other", coverage |-> "full"],
    [domain |-> "cyber"],
    [coverage |-> "full"] }

(* the lists of at most n entries of the pool, in any order and with repetition *)
RiskLists(n) == UNION {[1..k -> RiskEntryPool] : k \in 0..n}

(* the entries of the inputs of repeated analyses: two domains whose synthesized
   gaps share a gap_id, a domain in another letter case and the domain of a
   curated coverage gap *)
AnalysisEntryPool == <<
    [domain |-> "cyber", coverage |-> "full"],
    [domain |-> "cybersec", coverage |-> "full"],
    [domain |-> "Bio", coverage |-> "partial"],
    [domain |-> "persuasion", coverage |-> "partial"] >>

(* the lists of at most n different entries of that pool, in the order of the pool *)
AnalysisLists(n) ==
    {[i \in 1..Len(ix) |-> AnalysisEntryPool[ix[i]]] :
        ix \in {ix \in UNION {[1..k -> 1..Len(AnalysisEntryPool)] : k \in 0..n} :
                    \A i, j \in 1..Len(ix) : i < j => ix[i] < ix[j]}}

(* records that differ in risk_domains: no such key, or one of the lists *)
GapRecords(lists) == {EmptyDict} \cup {[risk_domains |-> l] : l \in lists}

(* the sequences of n records that hold at most budget risk_domains entries together *)
RECURSIVE RecordSeqs(_, _, _)
RecordSeqs(n, budget, records) ==
    IF n = 0 THEN {<<>>}
    ELSE UNION {{<<r>> \o rest :
                    rest \in RecordSeqs(n - 1, budget - Len(RiskDomains(r)), records)} :
                    r \in {r \in records : Len(RiskDomains(r)) <= budget}}

GapLabKeys == {"OpenAI", "Acme"}

GapKeySeqs == {ks \in KeySeqs : Range(ks) \subseteq GapLabKeys}

GapMappings(records) ==
    UNION {{[i \in 1..Len(ks) |-> <<ks[i], rs[i]>>] :
                rs \in RecordSeqs(Len(ks), MaxEntries, records)} :
              ks \in GapKeySeqs}

CoverageInputs == {NoExtractions} \cup GapMappings(GapRecords(RiskLists(MaxEntries)))

AnalysisInputs == {NoExtractions} \cup GapMappings(GapRecords(AnalysisLists(MaxEntries)))

(* a few extraction mappings for the operations that only read the analysis:
   none, an empty one, and one or two labs with at most one risk_domains entry each *)
SampleInputs == {NoExtractions} \cup GapMappings(GapRecords(AnalysisLists(1)))

(* the lab records of a mapping the caller goes on changing: none of the
   fields, one threshold and a full entry, two thresholds and a partial and a
   full entry *)
StatsRecords == {
    EmptyDict,
    [capability_thresholds |-> ThresholdList(1),
     risk_domains |-> <<[domain |-> "cyber", coverage |-> "full"]>>],
    [capability_thresholds |-> ThresholdList(2),
     risk_domains |-> <<[domain |-> "bio", coverage |-> "partial"],
                        [domain |-> "cyber", coverage |-> "full"]>>] }

(* the mapping passed at construction: an empty one, or one lab *)
StatsInputs == {<<>>} \cup {<< <<lab, rec>> >> : lab \in LabKeys, rec \in StatsRecords}

(* records with null fields: a list field that is None, a threshold whose
   level_name is None, a risk_domains entry whose domain or coverage is None *)
MalformedThresholds == {NullList, <<[level_name |-> PyNone]>>}

MalformedRiskDomains == {
    NullList,
    <<[domain |-> PyNone, coverage |-> "full"]>>,
    <<[domain |-> "cyber", coverage |-> PyNone]>> }

MalformedRecords ==
    {EmptyDict}
        \cup {[capability_thresholds |-> t] : t \in MalformedThresholds}
        \cup {[risk_domains |-> r] : r \in MalformedRiskDomains}
        \cup {[capability_thresholds |-> t, risk_domains |-> r] :
                  t \in MalformedThresholds, r \in MalformedRiskDomains}

MalformedInputs ==
    UNION {{[i \in 1..Len(ks) |-> <<ks[i], f[i]>>] : f \in [1..Len(ks) -> MalformedRecords]} :
              ks \in GapKeySeqs}

Perms(S) ==
    {f \in [1..Cardinality(S) -> S] : \A i, j \in 1..Cardinality(S) : i # j => f[i] # f[j]}

(* arguments of the query operations *)
LabArgs == {"openai", "OPENAI", "deepmind", "acme", "Acme", "nolab"}
LevelArgs == {"low", "medium", "high", "HIGH", "Level 4", "approaching ccl", "nolevel"}

----------------------------------------------------------------------------
(* State machine *)

NotConstructed == [constructed |-> FALSE]
NoCall == [op |-> "none"]

(* The query operations change nothing but ret, so a query made after another
   query returns what it returns when made first: one query per behaviour
   reaches every result. *)
QueryOps == {"get_unified_level", "get_equivalents", "find_coverage_gaps",
             "build_comparison_matrix", "build_domain_coverage_matrix",
             "get_summary_stats", "get_gaps_by_severity", "get_gaps_by_type",
             "get_gaps_by_domain"}

(* the domain arguments of get_gaps_by_domain: curated domains in two letter
   cases, a synthesized one, and one no gap has *)
DomainArgs == {"cyber", "CYBER", "Persuasion", "bio", "quantum"}

(* the extraction mappings of runs that execute side by side: none, a lab the
   curated tables do not know, and two labs whose data yield synthesized gaps *)
RunMappings == {
    NoExtractions,
    << <<"Acme", [capability_thresholds |-> ThresholdList(2),
                  risk_domains |-> <<[domain |-> "cyber", coverage |-> "full"]>>]>> >>,
    << <<"OpenAI", EmptyDict>>,
       <<"nova", [capability_thresholds |-> ThresholdList(1),
                  risk_domains |-> <<[domain |-> "cyber", coverage |-> "full"],
                                     [domain |-> "cybersec", coverage |-> "full"]>>]>> >> }

RunConfigs ==
    UNION {{[extractions |-> e, order |-> o] : o \in Perms(GetAllDomains(OrEmpty(e)))} :
              e \in RunMappings}

(* the arguments of the query a run makes *)
RunQueries == {<<"openai", "High">>, <<"Acme", "low">>}
NoQueryYet == ret.op \notin QueryOps

(* the module-level tables every instance of the process reads *)
CuratedTables ==
    [LEVEL_MAPPINGS |-> LEVEL_MAPPINGS,
     KNOWN_GAPS |-> KNOWN_GAPS,
     UNIFIED_LEVEL_DESCRIPTIONS |-> UNIFIED_LEVEL_DESCRIPTIONS]

InitObjects ==
    /\ tables = CuratedTables
    /\ runs = <<>>
    /\ mapper = NotConstructed
    /\ analyzer = NotConstructed
    /\ builder = NotConstructed
    /\ history = <<>>
    /\ ret = NoCall
    /\ raised = FALSE

(* TerminologyMapper(extractions) *)
NewTerminologyMapper ==
    /\ ~raised
    /\ ~mapper.constructed
    /\ LET r == BuildTerminologyMap(OrEmpty(extractions))
       IN IF r.raised
          THEN /\ raised' = TRUE
               /\ ret' = [op |-> "TerminologyMapper", raised |-> TRUE]
               /\ UNCHANGED mapper
          ELSE /\ mapper' = [constructed |-> TRUE, term_map |-> r.value]
               /\ ret' = [op |-> "TerminologyMapper", raised |-> FALSE]
               /\ UNCHANGED raised
    /\ UNCHANGED <<extractions, tables, runs, builder, hashOrder, analyzer, history>>

(* mapper.get_unified_level(lab, level_name) *)
CallGetUnifiedLevel ==
    /\ ~raised
    /\ mapper.constructed
    /\ NoQueryYet
    /\ \E lab \in LabArgs, level_name \in LevelArgs :
          LET r == GetUnifiedLevel(mapper.term_map, lab, level_name)
          IN /\ ret' = [op |-> "get_unified_level", lab |-> lab,
                        level_name |-> level_name, result |-> r]
             /\ raised' = r.raised
    /\ UNCHANGED <<extractions, tables, runs, builder, hashOrder, mapper, analyzer, history>>

(* mapper.get_equivalents(lab, level_name) *)
CallGetEquivalents ==
    /\ ~raised
    /\ mapper.constructed
    /\ NoQueryYet
    /\ \E lab \in LabArgs, level_name \in LevelArgs :
          LET r == GetEquivalents(mapper.term_map, lab, level_name)
          IN /\ ret' = [op |-> "get_equivalents", lab |-> lab,
                        level_name |-> level_name, result |-> r]
             /\ raised' = r.raised
    /\ UNCHANGED <<extractions, tables, runs, builder, hashOrder, mapper, analyzer, history>>

(* GapAnalyzer(extractions): the first analyzer, or a fresh one in place of one
   that has analysed *)
NewGapAnalyzer ==
    /\ ~raised
    /\ IF analyzer.constructed THEN analyzer.calls > 0 ELSE TRUE
    /\ Len(history) < MaxCalls
    /\ analyzer' = [constructed |-> TRUE, gaps |-> <<>>, calls |-> 0]
    /\ ret' = [op |-> "GapAnalyzer", raised |-> FALSE]
    /\ UNCHANGED <<extractions, tables, runs, builder, hashOrder, mapper, history, raised>>

(* analyzer.analyze_all(); calls counts the calls made on this instance *)
CallAnalyzeAll ==
    /\ ~raised
    /\ analyzer.constructed
    /\ Len(history) < MaxCalls
    /\ LET r == AnalyzeAll(analyzer.gaps, OrEmpty(extractions), hashOrder)
       IN /\ analyzer' = [analyzer EXCEPT !.gaps = r.gaps, !.calls = @ + 1]
          /\ history' = IF r.raised THEN history ELSE Append(history, r.gaps)
          /\ ret' = IF r.raised THEN [op |-> "analyze_all", raised |-> TRUE]
                     ELSE [op |-> "analyze_all", raised |-> FALSE, result |-> r.gaps]
          /\ raised' = r.raised
    /\ UNCHANGED <<extractions, tables, runs, builder, hashOrder, mapper>>

(* analyzer.find_coverage_gaps() *)
CallFindCoverageGaps ==
    /\ ~raised
    /\ analyzer.constructed
    /\ NoQueryYet
    /\ LET r == FindCoverageGaps(OrEmpty(extractions), hashOrder)
       IN /\ ret' = [op |-> "find_coverage_gaps", result |-> r]
          /\ raised' = r.raised
    /\ UNCHANGED <<extractions, tables, runs, builder, hashOrder, mapper, analyzer, history>>

(* MatrixBuilder(extractions): it builds a TerminologyMapper of its own *)
(* self.extractions of the builder at this moment *)
BuilderExtractions ==
    IF builder.extractions_at = "caller" THEN OrEmpty(extractions) ELSE <<>>

NewMatrixBuilder ==
    /\ ~raised
    /\ ~builder.constructed
    /\ LET r == BuildTerminologyMap(OrEmpty(extractions))
       IN IF r.raised
          THEN /\ raised' = TRUE
               /\ ret' = [op |-> "MatrixBuilder", raised |-> TRUE]
               /\ UNCHANGED builder
          ELSE /\ builder' = [constructed |-> TRUE, term_map |-> r.value,
                               extractions_at |-> SelfExtractionsAt(extractions)]
               /\ ret' = [op |-> "MatrixBuilder", raised |-> FALSE]
               /\ UNCHANGED raised
    /\ UNCHANGED <<extractions, tables, runs, hashOrder, mapper, analyzer, history>>

(* builder.build_comparison_matrix() *)
CallBuildComparisonMatrix ==
    /\ ~raised
    /\ builder.constructed
    /\ NoQueryYet
    /\ ret' = [op |-> "build_comparison_matrix",
               result |-> BuildComparisonMatrix(builder.term_map)]
    /\ UNCHANGED <<extractions, tables, runs, builder, hashOrder, mapper, analyzer, history, raised>>

(* builder.build_domain_coverage_matrix() *)
CallBuildDomainCoverageMatrix ==
    /\ ~raised
    /\ builder.constructed
    /\ NoQueryYet
    /\ LET r == BuildDomainCoverageMatrix(BuilderExtractions)
       IN /\ ret' = [op |-> "build_domain_coverage_matrix", result |-> r]
          /\ raised' = r.raised
    /\ UNCHANGED <<extractions, tables, runs, builder, hashOrder, mapper, analyzer, history>>

(* builder.get_summary_stats() *)
CallGetSummaryStats ==
    /\ ~raised
    /\ builder.constructed
    /\ NoQueryYet
    /\ LET r == GetSummaryStats(BuilderExtractions)
       IN /\ ret' = [op |-> "get_summary_stats", result |-> r]
          /\ raised' = r.raised
    /\ UNCHANGED <<extractions, tables, runs, builder, hashOrder, mapper, analyzer, history>>

(* the caller changes its extraction mapping in place: `extractions[lab] = rec`
   (a new lab goes to the end, a lab already present keeps its place) or
   `del extractions[lab]` *)
CallerUpdates ==
    /\ ~raised
    /\ extractions # NoExtractions
    /\ \E lab \in LabKeys :
           \/ \E rec \in StatsRecords :
                  /\ extractions' = DictSet(extractions, lab, rec)
                  /\ extractions' # extractions
                  /\ Len(extractions') <= MaxLabs
           \/ /\ DictHas(extractions, lab)
              /\ extractions' = DictDel(extractions, lab)
    /\ ret' = [op |-> "caller_update"]
    /\ UNCHANGED <<tables, runs, builder, hashOrder, mapper, analyzer, history, raised>>

(* analyzer.print_gap_report(): it analyses first when the analyzer holds no gaps *)
CallPrintGapReport ==
    /\ ~raised
    /\ analyzer.constructed
    /\ ret.op # "print_gap_report"
    /\ LET r == PrintGapReport(analyzer.gaps, OrEmpty(extractions), hashOrder)
       IN /\ analyzer' = [analyzer EXCEPT !.gaps = r.gaps,
                                          !.calls = IF analyzer.gaps = <<>> THEN @ + 1 ELSE @]
          /\ ret' = [op |-> "print_gap_report", raised |-> r.raised, table |-> r.table]
          /\ raised' = r.raised
    /\ UNCHANGED <<extractions, tables, runs, builder, hashOrder, mapper, history>>

(* analyzer.to_dict(): it analyses first when the analyzer holds no gaps *)
CallToDict ==
    /\ ~raised
    /\ analyzer.constructed
    /\ ret.op # "to_dict"
    /\ LET r == ToDict(analyzer.gaps, OrEmpty(extractions), hashOrder)
       IN /\ analyzer' = [analyzer EXCEPT !.gaps = r.gaps]
          /\ ret' = IF r.raised THEN [op |-> "to_dict", raised |-> TRUE]
                     ELSE [op |-> "to_dict", raised |-> FALSE, result |-> r.value,
                           analysed |-> analyzer.calls > 0]
          /\ raised' = r.raised
    /\ UNCHANGED <<extractions, tables, runs, builder, hashOrder, mapper, history>>

(* analyzer.export_gaps(path): written is the object dumped to the file *)
CallExportGaps ==
    /\ ~raised
    /\ analyzer.constructed
    /\ ret.op # "export_gaps"
    /\ LET r == ExportGaps(analyzer.gaps, OrEmpty(extractions), hashOrder)
       IN /\ analyzer' = [analyzer EXCEPT !.gaps = r.gaps]
          /\ ret' = IF r.raised THEN [op |-> "export_gaps", raised |-> TRUE]
                     ELSE [op |-> "export_gaps", raised |-> FALSE, written |-> r.value,
                           analysed |-> analyzer.calls > 0]
          /\ raised' = r.raised
    /\ UNCHANGED <<extractions, tables, runs, builder, hashOrder, mapper, history>>

(* analyzer.get_gaps_by_severity(severity) *)
CallGetGapsBySeverity ==
    /\ ~raised
    /\ analyzer.constructed
    /\ NoQueryYet
    /\ \E severity \in Range(GapSeverity) :
          ret' = [op |-> "get_gaps_by_severity", arg |-> severity,
                  result |-> GetGapsBySeverity(analyzer.gaps, severity)]
    /\ UNCHANGED <<extractions, tables, runs, builder, hashOrder, mapper, analyzer, history, raised>>

(* analyzer.get_gaps_by_type(gap_type) *)
CallGetGapsByType ==
    /\ ~raised
    /\ analyzer.constructed
    /\ NoQueryYet
    /\ \E gap_type \in GapType :
          ret' = [op |-> "get_gaps_by_type", arg |-> gap_type,
                  result |-> GetGapsByType(analyzer.gaps, gap_type)]
    /\ UNCHANGED <<extractions, tables, runs, builder, hashOrder, mapper, analyzer, history, raised>>

(* analyzer.get_gaps_by_domain(domain) *)
CallGetGapsByDomain ==
    /\ ~raised
    /\ analyzer.constructed
    /\ NoQueryYet
    /\ \E domain \in DomainArgs :
          ret' = [op |-> "get_gaps_by_domain", arg |-> domain,
                  result |-> GetGapsByDomain(analyzer.gaps, domain)]
    /\ UNCHANGED <<extractions, tables, runs, builder, hashOrder, mapper, analyzer, history, raised>>

(* one statement of run r: it may write the run's own objects and, through a
   reference, the module-level tables *)
StepTo(r, to, effect) ==
    /\ tables' = effect.tables
    /\ runs' = [runs EXCEPT ![r] = [effect.run EXCEPT !.pc = to]]
    /\ UNCHANGED <<extractions, hashOrder, mapper, analyzer, builder, history, ret, raised>>

RunMapCopy(r) ==
    /\ runs[r].pc = "start"
    /\ StepTo(r, "copied", MapCopyEffect(tables, runs[r]))

RunMapEnhance(r) ==
    /\ runs[r].pc = "copied"
    /\ StepTo(r, "mapped", MapEnhanceEffect(tables, runs[r]))

RunQuery(r) ==
    /\ runs[r].pc = "mapped"
    /\ \E q \in RunQueries :
           StepTo(r, "queried", QueryEffect(tables, runs[r], q[1], q[2]))

RunSeed(r) ==
    /\ runs[r].pc = "queried"
    /\ StepTo(r, "seeded", SeedEffect(tables, runs[r]))

RunSynthesize(r) ==
    /\ runs[r].pc = "seeded"
    /\ StepTo(r, "synthesized", SynthesizeEffect(tables, runs[r]))

RunDedup(r) ==
    /\ runs[r].pc = "synthesized"
    /\ StepTo(r, "analysed", DedupEffect(tables, runs[r]))

RunSummarise(r) ==
    /\ runs[r].pc = "analysed"
    /\ StepTo(r, "summarised", SummariseEffect(tables, runs[r]))

RunBuilder(r) ==
    /\ runs[r].pc = "summarised"
    /\ StepTo(r, "built", BuilderEffect(tables, runs[r]))

RunComparison(r) ==
    /\ runs[r].pc = "built"
    /\ StepTo(r, "compared", ComparisonEffect(tables, runs[r]))

RunCoverage(r) ==
    /\ runs[r].pc = "compared"
    /\ StepTo(r, "done", CoverageEffect(tables, runs[r]))

(* the program ends and is run again on the same data: the objects of the old
   process are gone, str hashes are seeded anew and with them the iteration
   order of a set of str; what analyze_all returned earlier stays with the
   caller (the exported report) *)
NewProcess ==
    /\ ~raised
    /\ analyzer.constructed
    /\ Len(history) > 0
    /\ Len(history) < MaxCalls
    /\ hashOrder' \in Perms(GetAllDomains(OrEmpty(extractions)))
    /\ mapper' = NotConstructed
    /\ analyzer' = NotConstructed
    /\ builder' = NotConstructed
    /\ ret' = [op |-> "new_process"]
    /\ UNCHANGED <<extractions, tables, runs, history, raised>>

InitGaps ==
    /\ extractions \in AnalysisInputs
    /\ hashOrder \in Perms(GetAllDomains(OrEmpty(extractions)))
    /\ InitObjects

NextGaps ==
    \/ NewGapAnalyzer
    \/ CallAnalyzeAll
    \/ NewProcess

SpecGaps == InitGaps /\ [][NextGaps]_vars

InitCoverage ==
    /\ extractions \in CoverageInputs
    /\ hashOrder \in Perms(GetAllDomains(OrEmpty(extractions)))
    /\ InitObjects

NextCoverage ==
    \/ NewGapAnalyzer
    \/ CallFindCoverageGaps

SpecCoverage == InitCoverage /\ [][NextCoverage]_vars

InitMalformed ==
    /\ extractions \in MalformedInputs
    /\ hashOrder \in Perms(GetAllDomains(OrEmpty(extractions)))
    /\ InitObjects

NextMalformed ==
    \/ NewTerminologyMapper
    \/ CallGetUnifiedLevel
    \/ CallGetEquivalents
    \/ NewGapAnalyzer
    \/ CallAnalyzeAll

SpecMalformed == InitMalformed /\ [][NextMalformed]_vars

InitComparison ==
    /\ extractions \in {NoExtractions} \cup MappingsOver(MapperRecords)
    /\ hashOrder = <<>>
    /\ InitObjects

NextComparison ==
    \/ NewMatrixBuilder
    \/ CallBuildComparisonMatrix

SpecComparison == InitComparison /\ [][NextComparison]_vars

InitDomains ==
    /\ extractions \in CoverageInputs
    /\ hashOrder = <<>>
    /\ InitObjects

NextDomains ==
    \/ NewMatrixBuilder
    \/ CallBuildDomainCoverageMatrix

SpecDomains == InitDomains /\ [][NextDomains]_vars

InitDefaults ==
    /\ extractions \in CoverageInputs
    /\ hashOrder \in Perms(GetAllDomains(OrEmpty(extractions)))
    /\ InitObjects

NextDefaults ==
    \/ NewMatrixBuilder
    \/ CallBuildDomainCoverageMatrix
    \/ CallGetSummaryStats
    \/ NewGapAnalyzer
    \/ CallFindCoverageGaps

SpecDefaults == InitDefaults /\ [][NextDefaults]_vars

InitReport ==
    /\ extractions \in AnalysisInputs
    /\ hashOrder \in Perms(GetAllDomains(OrEmpty(extractions)))
    /\ InitObjects

NextReport ==
    \/ NewGapAnalyzer
    \/ CallAnalyzeAll
    \/ CallPrintGapReport

SpecReport == InitReport /\ [][NextReport]_vars

InitExport ==
    /\ extractions \in SampleInputs
    /\ hashOrder \in Perms(GetAllDomains(OrEmpty(extractions)))
    /\ InitObjects

NextExport ==
    \/ NewGapAnalyzer
    \/ CallAnalyzeAll
    \/ CallToDict
    \/ CallExportGaps

SpecExport == InitExport /\ [][NextExport]_vars

InitFilters ==
    /\ extractions \in SampleInputs
    /\ hashOrder \in Perms(GetAllDomains(OrEmpty(extractions)))
    /\ InitObjects

NextFilters ==
    \/ NewGapAnalyzer
    \/ CallAnalyzeAll
    \/ CallGetGapsBySeverity
    \/ CallGetGapsByType
    \/ CallGetGapsByDomain

SpecFilters == InitFilters /\ [][NextFilters]_vars

InitRuns ==
    /\ tables = CuratedTables
    /\ runs \in [RunIds -> {NewRun(c) : c \in RunConfigs}]
    /\ extractions = NoExtractions
    /\ hashOrder = <<>>
    /\ mapper = NotConstructed
    /\ analyzer = NotConstructed
    /\ builder = NotConstructed
    /\ history = <<>>
    /\ ret = NoCall
    /\ raised = FALSE

NextRuns ==
    \E r \in RunIds :
        \/ RunMapCopy(r)
        \/ RunMapEnhance(r)
        \/ RunQuery(r)
        \/ RunSeed(r)
        \/ RunSynthesize(r)
        \/ RunDedup(r)
        \/ RunSummarise(r)
        \/ RunBuilder(r)
        \/ RunComparison(r)
        \/ RunCoverage(r)

SpecRuns == InitRuns /\ [][NextRuns]_vars

InitStats ==
    /\ extractions \in StatsInputs
    /\ hashOrder = <<>>
    /\ InitObjects

NextStats ==
    \/ NewMatrixBuilder
    \/ CallGetSummaryStats
    \/ CallerUpdates

SpecStats == InitStats /\ [][NextStats]_vars

InitMapper ==
    /\ extractions \in {NoExtractions} \cup MappingsOver(MapperRecords)
    /\ hashOrder = <<>>
    /\ InitObjects

NextMapper ==
    \/ NewTerminologyMapper
    \/ CallGetUnifiedLevel
    \/ CallGetEquivalents

SpecMapper == InitMapper /\ [][NextMapper]_vars

NextInference == NewTerminologyMapper

SpecInference == InitMapper /\ [][NextInference]_vars

----------------------------------------------------------------------------
(* Properties of the TerminologyMapper *)

CuratedLabs == Range(DictKeys(LEVEL_MAPPINGS))

(* the positions of the input labs that are absent from the curated set *)
InferredInputs ==
    {p \in 1..Len(OrEmpty(extractions)) : Lower(OrEmpty(extractions)[p][1]) \notin CuratedLabs}

InputThresholds(p) == Get(OrEmpty(extractions)[p][2], "capability_thresholds", <<>>)

(* the list the TerminologyMap holds for the input lab at position p *)
MappedList(p) == DictGet(mapper.term_map, Lower(OrEmpty(extractions)[p][1]), <<>>)

(* the positional rule as the specification states it, i 0-based *)
PositionRule(i, n) ==
    CASE i = 0 -> "MINIMAL"
      [] i # 0 /\ i = n - 1 /\ n >= 4 -> "CRITICAL"
      [] i # 0 /\ i = n - 1 /\ n < 4 -> "SEVERE"
      [] i # 0 /\ i # n - 1 /\ i = 1 -> "EMERGING"
      [] OTHER -> "SIGNIFICANT"

(* C1: for a lab absent from the curated set whose capability_thresholds has n
   entries, the TerminologyMap holds exactly n LevelMappings for it, in the
   order of the thresholds, each with confidence "uncertain" and with the
   unified level the positional rule gives to its index (0 -> MINIMAL, else
   n-1 -> CRITICAL if n >= 4 and SEVERE if n < 4, else 1 -> EMERGING, else
   SIGNIFICANT), for every n >= 0. *)
C1_InferredByPosition ==
    mapper.constructed =>
        \A p \in InferredInputs :
            LET thresholds == InputThresholds(p)
                n == Len(thresholds)
                ms == MappedList(p)
            IN /\ DictHas(mapper.term_map, Lower(OrEmpty(extractions)[p][1]))
               /\ Len(ms) = n
               /\ \A i \in 0..(n - 1) :
                     /\ ms[i + 1].lab = OrEmpty(extractions)[p][1]
                     /\ ms[i + 1].lab_level_name =
                            Get(thresholds[i + 1], "level_name", "Level " \o IntToStr(i + 1))
                     /\ ms[i + 1].confidence = "uncertain"
                     /\ ms[i + 1].unified_level = PositionRule(i, n)

C1_Witness ==
    /\ mapper.constructed
    /\ \E p \in InferredInputs : Len(InputThresholds(p)) >= 4
    /\ \E p \in InferredInputs : Len(InputThresholds(p)) = 0

(* C2 as stated: for every lab not in the curated set with n >= 1 thresholds,
   the inferred mapping at index 0 is MINIMAL and the one at index n-1 is
   CRITICAL if and only if n >= 4 and SEVERE otherwise. *)
C2_Original ==
    mapper.constructed =>
        \A p \in InferredInputs :
            LET n == Len(InputThresholds(p))
                ms == MappedList(p)
            IN n >= 1 =>
                /\ Len(ms) = n
                /\ ms[1].unified_level = "MINIMAL"
                /\ (ms[n].unified_level = "CRITICAL") <=> (n >= 4)
                /\ (n < 4) => (ms[n].unified_level = "SEVERE")

(* C2 amended: for every lab not in the curated set with n >= 1 thresholds the
   inferred mapping at index 0 is MINIMAL, and for n >= 2 the one at index n-1
   is CRITICAL if and only if n >= 4 and SEVERE otherwise (for n = 1 the only
   mapping is MINIMAL). *)
C2_FirstAndLast ==
    mapper.constructed =>
        \A p \in InferredInputs :
            LET n == Len(InputThresholds(p))
                ms == MappedList(p)
            IN n >= 1 =>
                /\ Len(ms) = n
                /\ ms[1].unified_level = "MINIMAL"
                /\ (n >= 2) => /\ (ms[n].unified_level = "CRITICAL") <=> (n >= 4)
                               /\ (n < 4) => (ms[n].unified_level = "SEVERE")

C2_Witness ==
    /\ mapper.constructed
    /\ \E p \in InferredInputs : Len(InputThresholds(p)) = 1
    /\ \E p \in InferredInputs : Len(InputThresholds(p)) = 3

(* the indices of the mappings of ms whose name equals level_name ignoring case *)
NameHits(ms, level_name) ==
    {i \in 1..Len(ms) : Lower(ms[i].lab_level_name) = Lower(level_name)}

LevelHits(ms, unified) == {i \in 1..Len(ms) : ms[i].unified_level = unified}

Least(S) == CHOOSE i \in S : \A j \in S : i <= j

(* the list of the lab the argument names *)
ArgList == DictGet(mapper.term_map, Lower(ret.lab), <<>>)

(* C7: when level_name resolves to unified level U for lab, get_equivalents
   returns a map whose keys are exactly the other labs of the TerminologyMap
   that have a mapping at U, each with the lab_level_name of that lab's first
   mapping at U; when level_name does not resolve the map is empty. *)
C7_Equivalents ==
    ret.op = "get_equivalents" =>
        /\ ~ret.result.raised
        /\ LET hits == NameHits(ArgList, ret.level_name)
               eq == ret.result.value
               tm == mapper.term_map
           IN IF hits = {} THEN eq = <<>>
              ELSE LET U == ArgList[Least(hits)].unified_level
                       others == {k \in 1..Len(tm) :
                                     /\ Lower(tm[k][1]) # Lower(ret.lab)
                                     /\ LevelHits(tm[k][2], U) # {}}
                   IN /\ Range(DictKeys(eq)) = {tm[k][1] : k \in others}
                      /\ Len(eq) = Cardinality(others)
                      /\ \A k \in others :
                            DictGet(eq, tm[k][1], PyNone) =
                                tm[k][2][Least(LevelHits(tm[k][2], U))].lab_level_name

C7_Witness ==
    /\ ret.op = "get_equivalents"
    /\ ~ret.result.raised
    /\ DictGet(ret.result.value, "deepmind", PyNone) = "Below CCL"
    /\ DictHas(ret.result.value, "acme")

(* C8: the map get_equivalents(lab, level_name) returns has no key that names
   the same lab as the argument, in whatever letter case the argument is
   written. *)
C8_NeverItself ==
    ret.op = "get_equivalents" =>
        /\ ~ret.result.raised
        /\ \A k \in 1..Len(ret.result.value) :
              Lower(ret.result.value[k][1]) # Lower(ret.lab)

C8_Witness ==
    /\ ret.op = "get_equivalents"
    /\ ret.lab = "OPENAI"
    /\ ~ret.result.raised
    /\ Len(ret.result.value) >= 3

(* C9: get_unified_level(lab, level_name) returns the unified level of the
   first mapping in the lab's list whose lab_level_name equals level_name
   ignoring letter case, and returns None, without an error, when the lab is
   unknown or no name matches. *)
C9_UnifiedLevel ==
    ret.op = "get_unified_level" =>
        /\ ~ret.result.raised
        /\ LET hits == NameHits(ArgList, ret.level_name)
           IN ret.result.value =
                 IF hits = {} THEN PyNone ELSE ArgList[Least(hits)].unified_level

C9_Witness ==
    /\ ret.op = "get_unified_level"
    /\ Cardinality(NameHits(ArgList, ret.level_name)) >= 2
    /\ ret.level_name \notin {ArgList[i].lab_level_name : i \in 1..Len(ArgList)}
    /\ ret.result = Return("EMERGING")

(* C10: in the curated level-mapping table, as the TerminologyMap of a
   constructed mapper holds it, for every curated lab and every UnifiedLevel at
   most one LevelMapping of that lab has that unified level. *)
C10_OnePerLevel ==
    mapper.constructed =>
        \A lab \in CuratedLabs :
            \A u \in Range(UnifiedLevel) :
                Cardinality(LevelHits(DictGet(mapper.term_map, lab, <<>>), u)) <= 1

----------------------------------------------------------------------------
(* Properties of the GapAnalyzer *)

Exts == OrEmpty(extractions)

(* the risk_domains entries of the lab at position p that declare domain d *)
EntriesFor(p, d) ==
    LET rds == Get(Exts[p][2], "risk_domains", <<>>)
    IN {rds[j] : j \in {j \in 1..Len(rds) :
                          "domain" \in DOMAIN rds[j] /\ Lower(rds[j].domain) = d}}

(* the lower-cased union of the domain names the supplied labs declare *)
DeclaredDomains ==
    UNION {LET rds == Get(Exts[p][2], "risk_domains", <<>>)
           IN {Lower(rds[j].domain) :
                  j \in {j \in 1..Len(rds) : "domain" \in DOMAIN rds[j] /\ rds[j].domain # ""}} :
           p \in 1..Len(Exts)}

(* the positions of the labs that declare coverage full or partial for d *)
Covering(d) ==
    {p \in 1..Len(Exts) :
        \E e \in EntriesFor(p, d) : "coverage" \in DOMAIN e /\ e.coverage \in {"full", "partial"}}

Missing(d) == (1..Len(Exts)) \ Covering(d)

CuratedPrefix(d) ==
    \E k \in 1..Len(KNOWN_GAPS) :
        LET id == KNOWN_GAPS[k].gap_id
            prefix == "COV-" \o Upper(SubSeq(d, 1, Min(3, Len(d))))
        IN Len(id) >= Len(prefix) /\ SubSeq(id, 1, Len(prefix)) = prefix

(* gaps is the list find_coverage_gaps returned: it holds exactly one gap for
   d, of type coverage and severity MEDIUM, whose affected_labs are the labs
   missing d in the order of the mapping *)
EmitsOne(gaps, d) ==
    LET at == {k \in 1..Len(gaps) : gaps[k].domain = d}
    IN /\ Cardinality(at) = 1
       /\ \A k \in at :
             LET g == gaps[k]
             IN /\ g.type = "coverage"
                /\ g.severity = "medium"
                /\ Len(g.affected_labs) = Cardinality(Missing(d))
                /\ Range(g.affected_labs) = {Exts[p][1] : p \in Missing(d)}
                /\ \A a, b \in 1..Len(g.affected_labs) :
                      a < b => \E p, q \in Missing(d) :
                                  /\ p < q
                                  /\ Exts[p][1] = g.affected_labs[a]
                                  /\ Exts[q][1] = g.affected_labs[b]

EmitsNone(gaps, d) == \A k \in 1..Len(gaps) : gaps[k].domain # d

(* the concatenation analyze_all deduplicates: the curated catalog followed by
   the synthesized gaps *)
Concatenation ==
    IF Exts = <<>> THEN KNOWN_GAPS
    ELSE KNOWN_GAPS \o FindThresholdGaps(Exts, hashOrder).value
                    \o FindCoverageGaps(Exts, hashOrder).value
                    \o FindDefinitionGaps

(* C3: after every call to analyze_all, whatever the extraction set and the
   calls made before, the returned list is the analyzer's stored list, no two
   of its gaps share a gap_id, its gap_ids are those of the concatenation
   (curated catalog, then synthesized gaps), and the gap kept for a gap_id is
   the earliest one of the concatenation with that id. *)
C3_FirstOccurrenceWins ==
    (ret.op = "analyze_all" /\ ~ret.raised) =>
        LET R == ret.result
            all == Concatenation
        IN /\ analyzer.gaps = R
           /\ \A i, j \in 1..Len(R) : i # j => R[i].gap_id # R[j].gap_id
           /\ {R[i].gap_id : i \in 1..Len(R)} = {all[k].gap_id : k \in 1..Len(all)}
           /\ \A i \in 1..Len(R) :
                 R[i] = all[Least({k \in 1..Len(all) : all[k].gap_id = R[i].gap_id})]

(* a second call on one analyzer, on an input whose synthesized gaps hold two
   different gaps with one gap_id *)
C3_Witness ==
    /\ ret.op = "analyze_all"
    /\ ~ret.raised
    /\ analyzer.calls = 2
    /\ \E i, j \in 1..Len(Concatenation) :
          /\ i < j
          /\ Concatenation[i].gap_id = Concatenation[j].gap_id
          /\ Concatenation[i] # Concatenation[j]

(* C4 as stated: for every declared domain, find_coverage_gaps emits one gap
   for it (type coverage, severity MEDIUM, affected_labs = missing) whenever
   covering and missing are both non-empty and no curated gap id starts with
   "COV-" and the first three letters of the domain upper-cased, and emits
   none for it otherwise. *)
C4_Original ==
    ret.op = "find_coverage_gaps" =>
        /\ ~ret.result.raised
        /\ \A d \in DeclaredDomains :
              IF Covering(d) # {} /\ Missing(d) # {} /\ ~CuratedPrefix(d)
              THEN EmitsOne(ret.result.value, d)
              ELSE EmitsNone(ret.result.value, d)

(* C4 amended: as C4, for the records whose fields are not null, with one more
   condition for a gap to be emitted: the domain is not "other". *)
C4_CoverageGaps ==
    ret.op = "find_coverage_gaps" =>
        /\ ~ret.result.raised
        /\ \A d \in DeclaredDomains :
              IF Covering(d) # {} /\ Missing(d) # {} /\ ~CuratedPrefix(d) /\ d # "other"
              THEN EmitsOne(ret.result.value, d)
              ELSE EmitsNone(ret.result.value, d)

(* one call that emits a gap for a domain declared in mixed case, on an input
   where "other" too is covered by one lab and missed by the other *)
C4_Witness ==
    /\ ret.op = "find_coverage_gaps"
    /\ ~ret.result.raised
    /\ Len(ret.result.value) = 1
    /\ ret.result.value[1].domain = "cyber"
    /\ ret.result.value[1].affected_labs = <<"Acme">>
    /\ Covering("other") # {}
    /\ Missing("other") # {}

(* C5: the gap lists that calls of analyze_all on the same extraction set
   return, on one analyzer or on two analyzers built from that set, are equal
   by value and in the same order. *)
C5_Idempotent ==
    \A i, j \in 1..Len(history) : history[i] = history[j]

----------------------------------------------------------------------------
(* Error handling *)

(* C6: on an extraction mapping whose records may have any field absent or
   null, constructing the components and calling analyze_all,
   get_unified_level and get_equivalents never ends in a raised error. *)
C6_NeverRaises ==
    ~raised

----------------------------------------------------------------------------
(* Properties of the TerminologyMap *)

(* C11: after constructing a TerminologyMapper, the keys of the TerminologyMap
   are exactly the curated lab ids together with the lower-cased ids of the
   input labs, each key once, and the list of every curated lab is its curated
   list, also when the input holds a record for that lab, in whatever letter
   case, with other capability_thresholds. *)
C11_KeysAndCurated ==
    mapper.constructed =>
        LET tm == mapper.term_map
        IN /\ Range(DictKeys(tm)) = CuratedLabs \cup {Lower(Exts[p][1]) : p \in 1..Len(Exts)}
           /\ \A i, j \in 1..Len(tm) : i # j => tm[i][1] # tm[j][1]
           /\ \A k \in 1..Len(LEVEL_MAPPINGS) :
                 DictGet(tm, LEVEL_MAPPINGS[k][1], <<>>) = LEVEL_MAPPINGS[k][2]

(* the input holds a record for the curated lab openai, keyed OpenAI, with
   thresholds of its own, and a record for a lab that is not curated *)
C11_Witness ==
    /\ mapper.constructed
    /\ \E p \in 1..Len(Exts) : Exts[p][1] = "OpenAI" /\ Len(InputThresholds(p)) >= 1
    /\ InferredInputs # {}

----------------------------------------------------------------------------
(* Properties of the synthesized coverage gaps *)

IdsWithPrefix(gaps, prefix) ==
    {i \in 1..Len(gaps) :
        Len(gaps[i].gap_id) >= Len(prefix) /\ SubSeq(gaps[i].gap_id, 1, Len(prefix)) = prefix}

(* C12: when at least one lab covers persuasion and at least one does not, the
   result of analyze_all holds exactly one gap whose gap_id starts with
   "COV-PER", it is the curated gap COV-PER-001, and no other gap is a coverage
   gap of the domain persuasion. *)
C12_CuratedPersuasionOnly ==
    (/\ ret.op = "analyze_all"
     /\ ~ret.raised
     /\ Covering("persuasion") # {}
     /\ Missing("persuasion") # {}) =>
        LET R == ret.result
            hits == IdsWithPrefix(R, "COV-PER")
        IN /\ Cardinality(hits) = 1
           /\ \A i \in hits :
                 /\ R[i].gap_id = "COV-PER-001"
                 /\ \E k \in 1..Len(KNOWN_GAPS) : KNOWN_GAPS[k] = R[i]
           /\ \A i \in 1..Len(R) :
                 (R[i].type = "coverage" /\ R[i].domain = "persuasion") => i \in hits

C12_Witness ==
    /\ ret.op = "analyze_all"
    /\ ~ret.raised
    /\ Covering("persuasion") # {}
    /\ Missing("persuasion") # {}
    /\ Len(ret.result) > Len(KNOWN_GAPS)

(* exactly one domain d is declared, some lab covers it, the other labs, at
   least one, have no entry for it, and no curated gap id starts with its
   COV- prefix *)
SingleDomainCase(d) ==
    /\ DeclaredDomains = {d}
    /\ Covering(d) # {}
    /\ Missing(d) # {}
    /\ \A p \in Missing(d) : EntriesFor(p, d) = {}
    /\ ~CuratedPrefix(d)

(* gaps is exactly one gap: type coverage, domain d, affected_labs the labs
   without an entry for d *)
OneGapFor(gaps, d) ==
    /\ Len(gaps) = 1
    /\ gaps[1].type = "coverage"
    /\ gaps[1].domain = d
    /\ Range(gaps[1].affected_labs) = {Exts[p][1] : p \in Missing(d)}
    /\ Len(gaps[1].affected_labs) = Cardinality(Missing(d))

(* C13 as stated: when exactly one domain d is declared, a non-empty set of
   labs declares it with coverage full or partial, the remaining non-empty set
   has no entry for d, and no curated gap id starts with the COV- prefix of d,
   find_coverage_gaps returns exactly one gap: type coverage, domain d,
   affected_labs the labs without an entry for d. *)
C13_Original ==
    ret.op = "find_coverage_gaps" =>
        \A d \in DeclaredDomains :
            SingleDomainCase(d) => ~ret.result.raised /\ OneGapFor(ret.result.value, d)

(* C13 amended: the same, for a domain d other than "other". *)
C13_SingleDomain ==
    ret.op = "find_coverage_gaps" =>
        \A d \in DeclaredDomains :
            (SingleDomainCase(d) /\ d # "other") =>
                ~ret.result.raised /\ OneGapFor(ret.result.value, d)

(* the only declared domain is cybersec, one lab covers it, the other has no
   entry at all *)
C13_Witness ==
    /\ ret.op = "find_coverage_gaps"
    /\ SingleDomainCase("cybersec")
    /\ Len(ret.result.value) = 1

(* the domains of the curated coverage gaps *)
CuratedCoverageDomains ==
    {KNOWN_GAPS[k].domain : k \in {k \in 1..Len(KNOWN_GAPS) : KNOWN_GAPS[k].type = "coverage"}}

(* C14: for every observed domain d that is not the domain of a curated
   coverage gap, if at least one lab covers d and at least one does not, the
   result of analyze_all holds a coverage gap whose domain is d. *)
C14_EveryDomainCaught ==
    (ret.op = "analyze_all" /\ ~ret.raised) =>
        \A d \in DeclaredDomains \ CuratedCoverageDomains :
            (Covering(d) # {} /\ Missing(d) # {}) =>
                \E i \in 1..Len(ret.result) :
                    ret.result[i].type = "coverage" /\ ret.result[i].domain = d

----------------------------------------------------------------------------
(* Properties of the coverage default *)

(* the label of the row of domain d in the domain coverage matrix *)
DomainLabel(d) == ReplaceUnderscore(Upper(d))

(* the rows of the matrix rows whose label is the label of domain d *)
RowsOf(rows, d) ==
    LET label == DomainLabel(d)
    IN {i \in 1..Len(rows) : DictGet(rows[i], "Domain", "") = label}

(* the entries of the lab at position p that name a domain and have no coverage
   field, when such an entry is the lab's only entry for its domain *)
BareEntries(p) ==
    LET rds == Get(Exts[p][2], "risk_domains", <<>>)
    IN {e \in Range(rds) : /\ "domain" \in DOMAIN e
                           /\ e.domain # ""
                           /\ "coverage" \notin DOMAIN e
                           /\ EntriesFor(p, Lower(e.domain)) = {e}}

(* C15: a risk_domains entry that names a domain and has no coverage field is
   treated as coverage partial by every operation that reads coverage: the
   domain coverage matrix shows the partial symbol for the lab and the domain,
   find_coverage_gaps counts the lab as covering the domain (no gap for the
   domain lists the lab as affected), and get_summary_stats counts the entry
   as partial. *)
C15_MissingCoverageIsPartial ==
    \A p \in 1..Len(Exts) : \A e \in BareEntries(p) :
        LET lab == Exts[p][1]
            d == Lower(e.domain)
        IN /\ (ret.op = "build_domain_coverage_matrix" /\ ~ret.result.raised) =>
                  \A i \in RowsOf(ret.result.value, d) :
                      DictGet(ret.result.value[i], Title(lab), "") = HalfCircle
           /\ (ret.op = "find_coverage_gaps" /\ ~ret.result.raised) =>
                  \A k \in 1..Len(ret.result.value) :
                      ret.result.value[k].domain = d
                          => lab \notin Range(ret.result.value[k].affected_labs)
           /\ (ret.op = "get_summary_stats" /\ ~ret.result.raised) =>
                  DictGet(ret.result.value.domain_coverage, lab, [partial |-> 0]).partial >= 1

----------------------------------------------------------------------------
(* Properties of the gap report *)

(* the rank of a displayed severity: high before medium before low *)
SeverityRank(severity) ==
    CASE severity = "HIGH" -> 1
      [] severity = "MEDIUM" -> 2
      [] severity = "LOW" -> 3

(* C16: the table print_gap_report prints lists every high-severity gap before
   every medium-severity gap, every medium-severity gap before every
   low-severity gap, and gaps of equal severity in ascending gap_id order. *)
C16_DisplayOrder ==
    (ret.op = "print_gap_report" /\ ~ret.raised) =>
        \A a, b \in 1..Len(ret.table) :
            a < b =>
                \/ SeverityRank(ret.table[a].severity) < SeverityRank(ret.table[b].severity)
                \/ /\ ret.table[a].severity = ret.table[b].severity
                   /\ StrLess(ret.table[a].gap_id, ret.table[b].gap_id)

----------------------------------------------------------------------------
(* Properties of the comparison matrix *)

(* the glyph that follows a level name of the given confidence *)
Glyph(confidence) ==
    CASE confidence = "exact" -> " " \o CheckMark
      [] confidence = "approximate" -> " ~"
      [] confidence = "uncertain" -> " ?"

(* the labs of the TerminologyMap of the builder, in the order of the map *)
MatrixLabs == DictKeys(builder.term_map)

(* C17: build_comparison_matrix returns exactly 5 rows, one per UnifiedLevel
   in ascending rank, each with the level column, the description column and
   one column per lab of the TerminologyMap; the cell of a lab at a level is
   the lab_level_name of the lab's first mapping at that level followed by the
   glyph of its confidence (three distinct glyphs for exact, approximate and
   uncertain), or '-' when the lab has no mapping at that level. *)
C17_ComparisonMatrix ==
    ret.op = "build_comparison_matrix" =>
        LET rows == ret.result
        IN /\ Len(rows) = 5
           /\ Cardinality({Glyph("exact"), Glyph("approximate"), Glyph("uncertain")}) = 3
           /\ \A i \in 1..Len(rows) :
                 /\ DictGet(rows[i], "Unified Level", "") = Title(UnifiedLevel[i])
                 /\ UnifiedLevelValue(UnifiedLevel[i]) = i
                 /\ Len(rows[i]) = Len(MatrixLabs) + 2
                 /\ Range(DictKeys(rows[i])) =
                        {"Unified Level", "Description"}
                            \cup {Title(MatrixLabs[k]) : k \in 1..Len(MatrixLabs)}
                 /\ \A k \in 1..Len(MatrixLabs) :
                        LET ms == DictGet(builder.term_map, MatrixLabs[k], <<>>)
                            hits == LevelHits(ms, UnifiedLevel[i])
                            cell == DictGet(rows[i], Title(MatrixLabs[k]), "")
                        IN IF hits = {} THEN cell = "-"
                           ELSE cell = ms[Least(hits)].lab_level_name
                                           \o Glyph(ms[Least(hits)].confidence)

(* a matrix with a lab inferred from the input, next to deepmind, which has two
   mappings at EMERGING *)
C17_Witness ==
    /\ ret.op = "build_comparison_matrix"
    /\ \E p \in InferredInputs : Len(InputThresholds(p)) >= 2
    /\ DictGet(ret.result[2], "Deepmind", "") = "Below CCL ~"
    /\ \E i \in 1..Len(ret.result) : DictGet(ret.result[i], "Acme", "") = "-"

(* C18: for every input, every curated lab L and every UnifiedLevel U of a
   mapping of L's curated list, the cell of the comparison matrix in the row of
   U and the column of L is not the absent marker '-'. *)
C18_CuratedCellsPresent ==
    ret.op = "build_comparison_matrix" =>
        \A k \in 1..Len(LEVEL_MAPPINGS) :
            LET L == LEVEL_MAPPINGS[k][1]
                curated == LEVEL_MAPPINGS[k][2]
            IN \A m \in 1..Len(curated) :
                  LET row == ret.result[UnifiedLevelValue(curated[m].unified_level)]
                  IN /\ DictHas(row, Title(L))
                     /\ DictGet(row, Title(L), "-") # "-"

(* a matrix built from an input that holds a record of its own for the curated
   lab openai, with a single threshold *)
C18_Witness ==
    /\ ret.op = "build_comparison_matrix"
    /\ \E p \in 1..Len(Exts) : Exts[p][1] = "OpenAI" /\ Len(InputThresholds(p)) = 1
    /\ DictGet(ret.result[5], "Openai", "-") # "-"

----------------------------------------------------------------------------
(* Properties of the domain coverage matrix *)

(* the domains of the rows: the six standard domains and the lower-cased domain
   names of the data *)
RowDomains ==
    {"cbrn", "cyber", "autonomy", "persuasion", "ai_rd", "deception"} \cup DeclaredDomains

(* the positions of the entries of the lab at position p whose domain is d
   ignoring letter case *)
MatchesOf(p, d) ==
    LET rds == Get(Exts[p][2], "risk_domains", <<>>)
    IN {j \in 1..Len(rds) : "domain" \in DOMAIN rds[j] /\ Lower(rds[j].domain) = d}

FourSymbols == {FullCircle, HalfCircle, EmptyCircle, "?"}

(* C19: for every input, none included, the rows of the domain coverage matrix
   are the six standard domains and the lower-cased domain names of the data,
   each domain in exactly one row and no other row. *)
C19_DomainRows ==
    (ret.op = "build_domain_coverage_matrix" /\ ~ret.result.raised) =>
        LET rows == ret.result.value
        IN /\ Len(rows) = Cardinality(RowDomains)
           /\ \A d \in RowDomains : Cardinality(RowsOf(rows, d)) = 1
           /\ UNION {RowsOf(rows, d) : d \in RowDomains} = 1..Len(rows)

(* a matrix of data that names a domain outside the standard six and a standard
   domain in another letter case *)
C19_Witness ==
    /\ ret.op = "build_domain_coverage_matrix"
    /\ ~ret.result.raised
    /\ "cybersec" \in DeclaredDomains
    /\ \E p \in 1..Len(Exts) : \E rd \in Range(RiskDomains(Exts[p][2])) :
          "domain" \in DOMAIN rd /\ rd.domain = "Cyber"
    /\ Len(ret.result.value) = 7

(* C20: the cell of lab L and domain d follows L's first risk_domains entry
   whose domain is d ignoring letter case: the full, partial or none symbol
   according to the coverage of that entry, and the unknown symbol when L has
   no entry for d; every cell is one of the four symbols. *)
C20_Cells ==
    (ret.op = "build_domain_coverage_matrix" /\ ~ret.result.raised) =>
        LET rows == ret.result.value
        IN /\ \A i \in 1..Len(rows) : \A c \in 1..Len(rows[i]) :
                 rows[i][c][1] # "Domain" => rows[i][c][2] \in FourSymbols
           /\ \A d \in RowDomains : \A i \in RowsOf(rows, d) : \A p \in 1..Len(Exts) :
                 LET rds == Get(Exts[p][2], "risk_domains", <<>>)
                     cell == DictGet(rows[i], Title(Exts[p][1]), "")
                     first == rds[Least(MatchesOf(p, d))]
                 IN IF MatchesOf(p, d) = {} THEN cell = "?"
                    ELSE "coverage" \in DOMAIN first =>
                            /\ first.coverage = "full" => cell = FullCircle
                            /\ first.coverage = "partial" => cell = HalfCircle
                            /\ first.coverage = "none" => cell = EmptyCircle

(* a matrix of a lab whose first entry for cyber says partial and whose second
   says full, next to a lab without an entry for cyber *)
C20_Witness ==
    /\ ret.op = "build_domain_coverage_matrix"
    /\ ~ret.result.raised
    /\ Len(Exts) = 2
    /\ \E p \in 1..Len(Exts) :
          /\ Cardinality(MatchesOf(p, "cyber")) = 2
          /\ Get(RiskDomains(Exts[p][2])[1], "coverage", PyNone) = "partial"
          /\ Get(RiskDomains(Exts[p][2])[2], "coverage", PyNone) = "full"
          /\ \A i \in RowsOf(ret.result.value, "cyber") :
                DictGet(ret.result.value[i], Title(Exts[p][1]), "") = HalfCircle
    /\ \E p \in 1..Len(Exts) : MatchesOf(p, "cyber") = {}

----------------------------------------------------------------------------
(* Properties of the exports and the filters *)

(* the number of gaps of the deduplicated analysis of the extraction mapping *)
AnalysisSize == Cardinality({Concatenation[k].gap_id : k \in 1..Len(Concatenation)})

(* the number of groups of the dict groups (group name -> list of gap dicts)
   in which a gap with the id gap_id occurs, each occurrence counted *)
Occurrences(groups, gap_id) ==
    LET names == DOMAIN groups
        hits == {<<n, k>> \in names \X (1..AnalysisSize) :
                    k <= Len(groups[n]) /\ groups[n][k].gap_id = gap_id}
    IN Cardinality(hits)

(* C21: in the summary of to_dict and in the analysis_metadata of export_gaps,
   whether or not analyze_all was called before, total_gaps is the number of
   gaps of the deduplicated analysis and the sum of the high, medium and low
   counts, and every gap of the result is in exactly one by_severity group and
   exactly one by_type group. *)
C21_ExportCounts ==
    /\ (ret.op = "to_dict" /\ ~ret.raised) =>
          LET d == ret.result
          IN /\ d.total_gaps = AnalysisSize
             /\ d.total_gaps = Len(analyzer.gaps)
             /\ d.total_gaps = Len(d.by_severity.high) + Len(d.by_severity.medium)
                                   + Len(d.by_severity.low)
             /\ \A k \in 1..Len(analyzer.gaps) :
                   /\ Occurrences(d.by_severity, analyzer.gaps[k].gap_id) = 1
                   /\ Occurrences(d.by_type, analyzer.gaps[k].gap_id) = 1
    /\ (ret.op = "export_gaps" /\ ~ret.raised) =>
          LET md == ret.written.analysis_metadata
          IN /\ md.total_gaps = AnalysisSize
             /\ md.total_gaps = Len(ret.written.gaps)
             /\ md.total_gaps = md.high_severity_count + md.medium_severity_count
                                    + md.low_severity_count

(* a to_dict on an analyzer that has not analysed, on data with a synthesized gap *)
C21_Witness ==
    /\ ret.op = "to_dict"
    /\ ~ret.raised
    /\ ~ret.analysed
    /\ ret.result.total_gaps > Len(KNOWN_GAPS)

(* the list analyze_all returned last on the analyzer at hand; empty before its
   first call *)
LastAnalysis == IF analyzer.calls = 0 THEN <<>> ELSE history[Len(history)]

(* the elements of the list R at the positions idx, in the order of R *)
Restrict(R, idx) ==
    [i \in 1..Cardinality(idx) |->
        R[CHOOSE k \in idx : Cardinality({j \in idx : j < k}) = i - 1]]

(* C22: after any sequence of analyze_all and filter calls, each filter returns
   the gaps of the most recent analyze_all result that match its argument, in
   the order of that result (a domain matches ignoring letter case, a gap
   without a domain never matches); before the first analyze_all call it
   returns the empty list. *)
C22_Filters ==
    LET R == LastAnalysis
    IN /\ ret.op = "get_gaps_by_severity" =>
             ret.result = Restrict(R, {k \in 1..Len(R) : R[k].severity = ret.arg})
       /\ ret.op = "get_gaps_by_type" =>
             ret.result = Restrict(R, {k \in 1..Len(R) : R[k].type = ret.arg})
       /\ ret.op = "get_gaps_by_domain" =>
             ret.result = Restrict(R, {k \in 1..Len(R) :
                                          /\ R[k].domain # PyNone
                                          /\ Lower(R[k].domain) = Lower(ret.arg)})

(* a filter by a domain in upper case after the second analysis, returning a
   curated and a synthesized gap *)
C22_Witness ==
    /\ ret.op = "get_gaps_by_domain"
    /\ ret.arg = "CYBER"
    /\ analyzer.calls = 2
    /\ Len(ret.result) = 2

----------------------------------------------------------------------------
(* Properties of runs side by side *)

(* the run has executed the statement that leads to the position pc *)
Past(run, pc) == PcRank(run.pc) >= PcRank(pc)

(* the mappings of the TerminologyMap of the run's mapper *)
TermMapOf(t, run) == ReadMappings(t, run, run.term_map_at)

(* C23: every core operation (constructing a TerminologyMapper, a GapAnalyzer, a
   MatrixBuilder, analyze_all, a query, a matrix builder, to_dict) leaves the
   curated level mappings, the curated gap catalog and the unified-level
   descriptions as they are, leaves the caller's extraction mapping as it is,
   and leaves the TerminologyMap of a mapper that is already constructed as it
   is. *)
C23_Frame ==
    [][/\ tables' = tables
       /\ \A r \in RunIds :
              /\ runs'[r].extractions = runs[r].extractions
              /\ Past(runs[r], "mapped") =>
                     TermMapOf(tables', runs'[r]) = TermMapOf(tables, runs[r])]_vars

(* both runs have executed every statement, one of them on a lab the curated
   tables do not know, the other on data that yield a synthesized gap *)
C23_Witness ==
    /\ DOMAIN runs = RunIds
    /\ \A r \in RunIds : runs[r].pc = "done"
    /\ DictHas(TermMapOf(tables, runs[1]), "acme")
    /\ Len(runs[2].gaps) > Len(KNOWN_GAPS)

(* C24: with the statements of two runs interleaved in any order, each on
   component instances and an extraction mapping of its own, the terminology
   map, the gap list, the summary, the query result and the two matrices of
   each run are what the run yields when executed alone, and the curated
   tables are what they were. *)
C24_Isolation ==
    /\ tables = CuratedTables
    /\ \A r \in DOMAIN runs :
           LET run == runs[r]
               exts == OrEmpty(run.extractions)
               alone == BuildTerminologyMap(exts).value
               gaps == AnalyzeAll(<<>>, exts, run.order).gaps
               out == run.out
           IN /\ Past(run, "mapped") => TermMapOf(tables, run) = alone
              /\ DictHas(out, "equivalents") =>
                     LET q == DictGet(out, "equivalents", PyNone)
                     IN q.result = GetEquivalents(alone, q.lab, q.level_name)
              /\ Past(run, "analysed") => ReadGaps(tables, run, run.gaps_at) = gaps
              /\ DictHas(out, "to_dict") =>
                     DictGet(out, "to_dict", PyNone) = ToDict(gaps, exts, run.order).value
              /\ Past(run, "built") =>
                     ReadMappings(tables, run, run.builder_at) = alone
              /\ DictHas(out, "comparison") =>
                     DictGet(out, "comparison", PyNone) = BuildComparisonMatrix(alone)
              /\ DictHas(out, "coverage") =>
                     DictGet(out, "coverage", PyNone) = BuildDomainCoverageMatrix(exts).value

(* the first run has synthesized its gaps and not yet removed the duplicates
   while the second, on other data, has built its matrix builder *)
C24_Witness ==
    /\ DOMAIN runs = RunIds
    /\ runs[1].pc = "synthesized"
    /\ runs[2].pc = "built"
    /\ runs[1].extractions # NoExtractions
    /\ runs[2].extractions # NoExtractions
    /\ runs[1].extractions # runs[2].extractions
    /\ Len(runs[1].gaps) > Len(KNOWN_GAPS)
    /\ DictHas(runs[2].builder_mappings, "acme")

----------------------------------------------------------------------------
(* Properties of the summary statistics *)

(* C25: get_summary_stats is computed from the contents of the caller's mapping
   at the time of the call: whatever mapping was passed at construction (an
   empty one included) and whatever the caller added, removed or changed
   since, the statistics hold for every lab then present its full and partial
   counts, their sum as the total, and its number of capability thresholds. *)
C25_StatsAtCallTime ==
    ret.op = "get_summary_stats" =>
        LET stats == ret.result.value
        IN \A p \in 1..Len(extractions) :
               LET lab == extractions[p][1]
                   rds == Get(extractions[p][2], "risk_domains", <<>>)
                   full == Cardinality({j \in 1..Len(rds) : rds[j].coverage = "full"})
                   partial == Cardinality({j \in 1..Len(rds) : rds[j].coverage = "partial"})
               IN /\ DictHas(stats.domain_coverage, lab)
                  /\ DictGet(stats.domain_coverage, lab, PyNone) =
                         [full |-> full, partial |-> partial, total |-> full + partial]
                  /\ DictGet(stats.level_counts, lab, PyNone) =
                         Len(Get(extractions[p][2], "capability_thresholds", <<>>))

----------------------------------------------------------------------------
(* Properties of the order of the analysis *)

(* C26: the list analyze_all returns starts with every curated gap, in the order
   of the catalog, and holds after them only gaps the synthesizers made for the
   input; with no extraction records (no mapping, or an empty one) it is the
   curated catalog and nothing else. *)
C26_CuratedFirst ==
    (ret.op = "analyze_all" /\ ~ret.raised) =>
        LET R == ret.result
            n == Len(KNOWN_GAPS)
            synthesized == Range(FindThresholdGaps(Exts, hashOrder).value)
                               \cup Range(FindCoverageGaps(Exts, hashOrder).value)
        IN /\ Len(R) >= n
           /\ SubSeq(R, 1, n) = KNOWN_GAPS
           /\ \A i \in (n + 1)..Len(R) :
                  R[i] \in synthesized /\ R[i] \notin Range(KNOWN_GAPS)
           /\ Exts = <<>> => R = KNOWN_GAPS

(* an analysis that returned the catalog followed by a synthesized gap *)
C26_Witness ==
    /\ ret.op = "analyze_all"
    /\ ~ret.raised
    /\ Len(ret.result) > Len(KNOWN_GAPS)
    /\ ret.result[Len(KNOWN_GAPS) + 1].gap_id = "COV-CYB-DYN"

----------------------------------------------------------------------------
(* Properties of the inferred order *)

(* C27: the positional inference keeps the order: for a lab absent from the
   curated set, a threshold that comes earlier in the list never gets a higher
   unified level (by the value of the enum) than one that comes later. *)
C27_OrderPreserved ==
    mapper.constructed =>
        \A p \in InferredInputs :
            LET ms == MappedList(p)
            IN \A i, j \in 1..Len(ms) :
                   i < j => UnifiedLevelValue(ms[i].unified_level)
                                <= UnifiedLevelValue(ms[j].unified_level)

(* a mapper constructed on a lab absent from the curated set with four
   thresholds, inferred as MINIMAL, EMERGING, SIGNIFICANT, CRITICAL *)
C27_Witness ==
    /\ mapper.constructed
    /\ \E p \in InferredInputs :
           /\ Len(InputThresholds(p)) = 4
           /\ [k \in 1..4 |-> MappedList(p)[k].unified_level] =
                  <<"MINIMAL", "EMERGING", "SIGNIFICANT", "CRITICAL">>

----------------------------------------------------------------------------
(* Properties of the level equivalence *)

(* C29: the equivalence of levels is symmetric: when get_equivalents(A, a) maps
   the lab B to the level name b, get_equivalents(B, b) maps A to a (the lab
   and the level name compared ignoring letter case, as the lookups do). *)
C29_Symmetric ==
    (ret.op = "get_equivalents" /\ ~ret.result.raised) =>
        LET eq == ret.result.value
        IN \A k \in 1..Len(eq) :
               LET back == GetEquivalents(mapper.term_map, eq[k][1], eq[k][2])
               IN /\ ~back.raised
                  /\ DictHas(back.value, Lower(ret.lab))
                  /\ Lower(DictGet(back.value, Lower(ret.lab), "")) = Lower(ret.level_name)

----------------------------------------------------------------------------
(* Properties across the synthesizer and the matrices *)

(* every risk_domains entry of the input names a domain and a coverage of full,
   partial or none *)
AllExplicit ==
    \A p \in 1..Len(Exts) : \A e \in Range(Get(Exts[p][2], "risk_domains", <<>>)) :
        /\ "domain" \in DOMAIN e
        /\ e.domain # ""
        /\ "coverage" \in DOMAIN e
        /\ e.coverage \in {"full", "partial", "none"}

(* C28: when every entry has an explicit coverage of full, partial or none, the
   lab L is among labs_covering of find_coverage_gaps for the observed domain d
   if and only if the cell of d and L in the domain coverage matrix is the full
   or the partial symbol, also when L lists d more than once. *)
C28_SynthesizerAgreesWithMatrix ==
    (ret.op = "build_domain_coverage_matrix" /\ ~ret.result.raised /\ AllExplicit) =>
        \A d \in DeclaredDomains : \A i \in RowsOf(ret.result.value, d) :
            \A p \in 1..Len(Exts) :
                Exts[p][1] \in Range(LabsWhere(Exts, d, TRUE))
                    <=> DictGet(ret.result.value[i], Title(Exts[p][1]), "")
                            \in {FullCircle, HalfCircle}

(* the columns of the rows of a matrix other than the fixed ones *)
LabColumns(rows, fixed) == UNION {Range(DictKeys(rows[i])) : i \in 1..Len(rows)} \ fixed

(* C30: the comparison matrix and the domain coverage matrix of one
   MatrixBuilder have the same set of lab columns, for every input. *)
C30_SameLabColumns ==
    (ret.op = "build_domain_coverage_matrix" /\ ~ret.result.raised) =>
        LabColumns(ret.result.value, {"Domain"})
            = LabColumns(BuildComparisonMatrix(builder.term_map),
                         {"Unified Level", "Description"})

====
